---- MODULE Spec2Model ----
(***************************************************************************)
(* Lecturer module: the grading utilities (utils/marks.ts), the validators *)
(* (utils/validation.ts) and the React hooks that sequence validation,     *)
(* gateway call and state update (useAuth, useMarks, useReporting).        *)
(*                                                                         *)
(* Numbers.  A JavaScript number is held as an integer count of            *)
(* thousandths of a mark (Unit thousandths = 1 mark), so 89.5 is 89500 and *)
(* 0.125 is 125.  The inputs are drawn from two grids on which IEEE-754    *)
(* double arithmetic agrees with this exact arithmetic: the hundredths     *)
(* (the error of a sum of a few such doubles is far below the distance to  *)
(* the nearest rounding tie) and the eighths (0.125 k is exact in binary,  *)
(* and so is 100 * 0.125 k).  NaN is a distinguished value that every      *)
(* comparison rejects and every sum propagates.                            *)
(***************************************************************************)
EXTENDS Integers, Sequences, FiniteSets, TLC

VARIABLES
    hook,                 \* the hook instance (or utility module) under observation
    call,                 \* utils/marks.ts: the utility call evaluated last
    statistics,           \* useReporting: statistics
    isLoadingStatistics,  \* useReporting: isLoadingStatistics
    reportError,          \* useReporting: error
    reportPending,        \* useReporting: getCourseStatistics calls in flight
    reportInput,          \* the student list the caller holds for calculateStatistics
    currentMarks,         \* useMarks: currentMarks
    isSubmitting,         \* useMarks: isSubmitting
    isUpdating,           \* useMarks: isUpdating
    isFetching,           \* useMarks: isFetching
    success,              \* useMarks: success
    marksError,           \* useMarks: error
    marksPending,         \* useMarks: gateway calls in flight, counted per operation
    lecturer,             \* useAuth: lecturer
    token,                \* localStorage[AUTH_TOKEN_KEY]
    authIsLoading,        \* useAuth: isLoading
    isAuthenticating,     \* useAuth: isAuthenticating
    isRegistering,        \* useAuth: isRegistering
    authError,            \* useAuth: error
    authPending,          \* useAuth: gateway calls in flight, counted per operation
    students,             \* useStudents: students
    studentsWithMarks,    \* useStudents: studentsWithMarks
    rosterIsLoading,      \* useStudents: isLoading
    isRefreshing,         \* useStudents: isRefreshing
    rosterError,          \* useStudents: error
    lastFetchedCourseId,  \* useStudents: lastFetchedCourseId
    rosterPending,        \* useStudents: fetches in flight, counted per call
    halfSettled,          \* useStudents: of these, the Promise.all calls one response of which has arrived
    lastRequestedCourseId, \* history: the course of the fetch called last
    lastShape,            \* history: the kind of fetch that succeeded last
    last                  \* the handler step taken last: operation, verdict, return value

reportVars == <<statistics, isLoadingStatistics, reportError, reportPending, reportInput>>
marksVars == <<currentMarks, isSubmitting, isUpdating, isFetching, success, marksError, marksPending>>
authVars == <<lecturer, token, authIsLoading, isAuthenticating, isRegistering, authError, authPending>>
rosterVars == <<students, studentsWithMarks, rosterIsLoading, isRefreshing, rosterError,
                lastFetchedCourseId, rosterPending, halfSettled, lastRequestedCourseId, lastShape>>
vars == <<hook, call, reportVars, marksVars, authVars, rosterVars, last>>

-----------------------------------------------------------------------------
(* Bounds *)

MaxBelow == 5        \* calculateGrade is tried on totals down to -MaxBelow marks
MaxAbove == 50       \* ... and up to 100 + MaxAbove marks
MaxEighth == 2       \* preview components range over -MaxEighth/8 .. MaxEighth/8 marks
MaxStudents == 4     \* length of the student list handed to calculateStatistics
MaxInFlight == 1     \* calls a hook may have in flight at once
MaxFetches == 2      \* fetches in flight at once, a call of fetchStudents being the last of them
MaxBatch == 2        \* entries of a bulk submission
MaxBulk == 4         \* entries of a batch handed to validateBulkMarks directly
MaxRows == 2         \* students of a list handed to exportMarksToCSV
MaxText == 2         \* characters of a text field of an exported student

-----------------------------------------------------------------------------
(* Numbers *)

Unit == 10 * 10 * 10
NaN == -99999999
NULL == "null"                    \* null where the value is a string
Null == [null |-> TRUE]           \* null where the value is an object
Undefined == [undefined |-> TRUE] \* an absent optional object

IsNaN(v) == v = NaN
Ge(a, b) == ~IsNaN(a) /\ ~IsNaN(b) /\ a >= b
Le(a, b) == ~IsNaN(a) /\ ~IsNaN(b) /\ a <= b
Add(a, b) == IF IsNaN(a) \/ IsNaN(b) THEN NaN ELSE a + b
MathMin(a, b) == IF IsNaN(a) \/ IsNaN(b) THEN NaN ELSE IF a <= b THEN a ELSE b
MathMax(a, b) == IF IsNaN(a) \/ IsNaN(b) THEN NaN ELSE IF a >= b THEN a ELSE b
\* Math.round(x * 100) / 100: Math.round is floor(x + 0.5), ties go to +infinity
Round2(x) == IF IsNaN(x) THEN NaN ELSE ((x + 5) \div 10) * 10

\* the double 1e-7: positive, below every grid value above 0, and written by
\* Number.prototype.toString in exponent notation ("1e-7", no decimal point)
OneE7 == -77777777
\* a < b for numbers that are not NaN
Less(a, b) ==
    IF a = OneE7 THEN b # OneE7 /\ b > 0
    ELSE IF b = OneE7 THEN a <= 0
    ELSE a < b

-----------------------------------------------------------------------------
(* types: constants *)

MAX_MARKS == [assignment |-> 10, quiz |-> 15, project |-> 25, midsem |-> 20, finalExam |-> 30]
MAX_TOTAL_MARKS == 100
MIN_PASSING_SCORE == 60

GRADE_BOUNDARIES ==
    << [grade |-> "A",  minScore |-> 90, maxScore |-> 100],
       [grade |-> "A-", minScore |-> 87, maxScore |-> 89],
       [grade |-> "B+", minScore |-> 84, maxScore |-> 86],
       [grade |-> "B",  minScore |-> 80, maxScore |-> 83],
       [grade |-> "B-", minScore |-> 77, maxScore |-> 79],
       [grade |-> "C+", minScore |-> 74, maxScore |-> 76],
       [grade |-> "C",  minScore |-> 70, maxScore |-> 73],
       [grade |-> "C-", minScore |-> 67, maxScore |-> 69],
       [grade |-> "D+", minScore |-> 64, maxScore |-> 66],
       [grade |-> "D",  minScore |-> 62, maxScore |-> 63],
       [grade |-> "D-", minScore |-> 60, maxScore |-> 61],
       [grade |-> "F",  minScore |-> 0,  maxScore |-> 59] >>

Grades == {GRADE_BOUNDARIES[i].grade : i \in 1..Len(GRADE_BOUNDARIES)}
Components == <<"assignment", "quiz", "project", "midsem", "finalExam">>

-----------------------------------------------------------------------------
(* utils/marks.ts *)

\* variant: the sum cut to 2 decimals instead of rounded
calculateTotalScoreTruncated(marks) ==
    LET total == Add(Add(Add(Add(marks.assignment, marks.quiz), marks.project),
                         marks.midsem), marks.finalExam)
    IN IF IsNaN(total) THEN NaN ELSE (total \div 10) * 10

calculateTotalScore(marks) ==
    Round2(Add(Add(Add(Add(marks.assignment, marks.quiz), marks.project),
                   marks.midsem), marks.finalExam))

\* the clamp of calculateGrade: Math.max(0, Math.min(MAX_TOTAL_MARKS, totalScore))
clampScore(totalScore) == MathMax(0, MathMin(MAX_TOTAL_MARKS * Unit, totalScore))

\* variant: the lower limit of a boundary taken as exclusive
boundaryMatchesExclusive(score, i) ==
    /\ ~IsNaN(score) /\ score > GRADE_BOUNDARIES[i].minScore * Unit
    /\ Le(score, GRADE_BOUNDARIES[i].maxScore * Unit)

\* the test of the lookup loop for boundary i
boundaryMatches(score, i) ==
    /\ Ge(score, GRADE_BOUNDARIES[i].minScore * Unit)
    /\ Le(score, GRADE_BOUNDARIES[i].maxScore * Unit)

RECURSIVE gradeLoop(_, _)
gradeLoop(score, i) ==
    IF i > Len(GRADE_BOUNDARIES) THEN "F"      \* the fallback after the loop
    ELSE IF boundaryMatches(score, i) THEN GRADE_BOUNDARIES[i].grade
    ELSE gradeLoop(score, i + 1)

\* variant: the lookup without the clamp
calculateGradeNoClamp(totalScore) == gradeLoop(totalScore, 1)

calculateGrade(totalScore) == gradeLoop(clampScore(totalScore), 1)

isPassingGrade(grade) == grade # "F"
isPassingScore(score) == Ge(score, MIN_PASSING_SCORE * Unit)

\* GRADE_BOUNDARIES.find(b => b.grade === grade)
getGradeBoundary(grade) ==
    LET found == {i \in 1..Len(GRADE_BOUNDARIES) : GRADE_BOUNDARIES[i].grade = grade}
    IN IF found = {} THEN Undefined
       ELSE GRADE_BOUNDARIES[CHOOSE i \in found : \A j \in found : i <= j]

compareGrades(grade1, grade2) ==
    LET boundary1 == getGradeBoundary(grade1)
        boundary2 == getGradeBoundary(grade2)
    IN IF boundary1 = Undefined \/ boundary2 = Undefined THEN 0
       ELSE boundary1.minScore - boundary2.minScore

-----------------------------------------------------------------------------
(* The utility calls: inputs and actions *)

TotalInputs == {10 * k : k \in (0 - 100 * MaxBelow) .. (100 * (MAX_TOTAL_MARKS + MaxAbove))} \cup {NaN}

EighthInputs == {125 * k : k \in (0 - MaxEighth) .. MaxEighth}
\* the README's example marks, one per component
ExampleMarks == [assignment |-> 8, quiz |-> 12, project |-> 20, midsem |-> 18, finalExam |-> 25]
ComponentInputs(c) == EighthInputs \cup {ExampleMarks[c] * Unit}
PreviewInputs ==
    [assignment : ComponentInputs("assignment"), quiz : ComponentInputs("quiz"),
     project : ComponentInputs("project"), midsem : ComponentInputs("midsem"),
     finalExam : ComponentInputs("finalExam")]

\* a call that has not been evaluated yet: the function and its argument
Pending(fn, arg) == [fn |-> fn, arg |-> arg, done |-> FALSE, totalScore |-> 0, grade |-> "F"]

\* two totals: a multiple of 0.1 marks, and that total plus a step of 0, 0.01,
\* 0.5, 1 or 3 marks
PairSteps == {0, 10, 500, Unit, 3 * Unit}
PairInputs ==
    {[low |-> t, high |-> t + d] : t \in {x \in TotalInputs \ {NaN} : x % 100 = 0}, d \in PairSteps}
PendingComparison(pair) ==
    [fn |-> "compareGrades", arg |-> pair, done |-> FALSE, grades |-> <<"F", "F">>, result |-> 0]

GradingCalls ==
    {Pending("calculateGrade", t) : t \in TotalInputs}
        \cup {Pending("previewCalculation", m) : m \in PreviewInputs}
        \cup {PendingComparison(pair) : pair \in PairInputs}

CalculateGrade ==
    /\ hook = "utils"
    /\ call.fn = "calculateGrade" /\ ~call.done
    /\ call' = [call EXCEPT !.done = TRUE, !.totalScore = call.arg,
                            !.grade = calculateGrade(call.arg)]
    /\ UNCHANGED <<rosterVars, hook, reportVars, marksVars, authVars, last>>

\* useMarks.previewCalculation: calculateTotalScore, then calculateGrade of it
previewCalculation(marks) ==
    [totalScore |-> calculateTotalScore(marks), grade |-> calculateGrade(calculateTotalScore(marks))]

PreviewCalculation ==
    /\ hook = "utils"
    /\ call.fn = "previewCalculation" /\ ~call.done
    /\ call' = [call EXCEPT !.done = TRUE,
                            !.totalScore = previewCalculation(call.arg).totalScore,
                            !.grade = previewCalculation(call.arg).grade]
    /\ UNCHANGED <<rosterVars, hook, reportVars, marksVars, authVars, last>>

\* compareGrades applied to the grades calculateGrade gives two totals
CompareGrades ==
    /\ hook = "utils"
    /\ call.fn = "compareGrades" /\ ~call.done
    /\ call' = [call EXCEPT !.done = TRUE,
                            !.grades = <<calculateGrade(call.arg.low), calculateGrade(call.arg.high)>>,
                            !.result = compareGrades(calculateGrade(call.arg.low),
                                                     calculateGrade(call.arg.high))]
    /\ UNCHANGED <<rosterVars, hook, reportVars, marksVars, authVars, last>>

-----------------------------------------------------------------------------
(* utils/validation.ts.  A string a validator inspects character by          *)
(* character (email, phone, password, name) is a sequence of one-character   *)
(* strings; identifiers and messages are strings.                            *)

Digits == {"0", "1", "2", "3", "4", "5", "6", "7", "8", "9"}
UpperCase == {"A", "B", "D", "L", "P", "R", "S", "W"}
LowerCase == {"a", "b", "c", "d", "e", "l", "o", "r", "s", "w"}
Whitespace == {" "}

createError(field, message) == [field |-> field, message |-> message]
createResult(errors) == [isValid |-> Len(errors) = 0, errors |-> errors]

\* the errors pushed by one guarded push
ErrorIf(cond, field, message) == IF cond THEN <<createError(field, message)>> ELSE << >>

\* /^[^\s@]+@[^\s@]+\.[^\s@]+$/.test(email): one "@", no white space, at least
\* one character before the "@", and after it a "." that has at least one
\* character on each side
emailRegexTest(email) ==
    LET ats == {i \in 1..Len(email) : email[i] = "@"}
    IN /\ Cardinality(ats) = 1
       /\ \A i \in 1..Len(email) : email[i] \notin Whitespace
       /\ LET p == CHOOSE i \in ats : TRUE
          IN 1 < p /\ \E q \in (p + 2)..(Len(email) - 1) : email[q] = "."

validateEmail(email) ==
    IF Len(email) = 0 THEN createResult(<<createError("email", "Email is required")>>)
    ELSE createResult(
             ErrorIf(~emailRegexTest(email), "email", "Invalid email format")
          \o ErrorIf(Len(email) > 255, "email", "Email must be less than 255 characters"))

validatePhone(phone) ==
    IF Len(phone) = 0 THEN createResult(<<createError("phone", "Phone number is required")>>)
    ELSE LET digitsOnly == SelectSeq(phone, LAMBDA ch : ch \in Digits)
         IN createResult(
                ErrorIf(Len(digitsOnly) < 10, "phone", "Phone number must be at least 10 digits")
             \o ErrorIf(Len(digitsOnly) > 15, "phone", "Phone number must be less than 15 digits"))

Contains(str, class) == \E i \in 1..Len(str) : str[i] \in class

validatePassword(password) ==
    IF Len(password) = 0 THEN createResult(<<createError("password", "Password is required")>>)
    ELSE createResult(
             ErrorIf(Len(password) < 8, "password", "Password must be at least 8 characters")
          \o ErrorIf(~Contains(password, UpperCase), "password",
                     "Password must contain at least one uppercase letter")
          \o ErrorIf(~Contains(password, LowerCase), "password",
                     "Password must contain at least one lowercase letter")
          \o ErrorIf(~Contains(password, Digits), "password",
                     "Password must contain at least one number"))

\* /^[a-zA-Z\s\-']+$/.test(name), for a non-empty name
nameRegexTest(name) ==
    \A i \in 1..Len(name) : name[i] \in (UpperCase \cup LowerCase \cup Whitespace \cup {"-", "'"})

validateName(name, fieldName) ==
    IF Len(name) = 0 THEN createResult(<<createError(fieldName, fieldName \o " is required")>>)
    ELSE createResult(
             ErrorIf(Len(name) < 2, fieldName, fieldName \o " must be at least 2 characters")
          \o ErrorIf(Len(name) > 50, fieldName, fieldName \o " must be less than 50 characters")
          \o ErrorIf(~nameRegexTest(name), fieldName,
                     fieldName \o " can only contain letters, spaces, hyphens, and apostrophes"))

\* (value.toString().split('.')[1] || '').length, for a number held in thousandths
\* Partial<MarksInput>: an absent number property (typeof value is 'undefined')
AbsentNumber == -88888888

\* (value.toString().split('.')[1] || '').length
decimalPlaces(value) ==
    IF value = OneE7 THEN 0
    ELSE IF value % 10 # 0 THEN 3 ELSE IF value % 100 # 0 THEN 2 ELSE IF value % Unit # 0 THEN 1 ELSE 0

\* variant: the test against the maximum is missing
validateMarkNoMaximum(value, fieldName, maxValue) ==
    IF value = AbsentNumber \/ IsNaN(value)
    THEN createResult(<<createError(fieldName, fieldName \o " must be a valid number")>>)
    ELSE createResult(
             ErrorIf(Less(value, 0), fieldName, fieldName \o " cannot be negative")
          \o ErrorIf(decimalPlaces(value) > 2, fieldName,
                     fieldName \o " can have at most 2 decimal places"))

validateMark(value, fieldName, maxValue) ==
    IF value = AbsentNumber \/ IsNaN(value)
    THEN createResult(<<createError(fieldName, fieldName \o " must be a valid number")>>)
    ELSE createResult(
             ErrorIf(Less(value, 0), fieldName, fieldName \o " cannot be negative")
          \o ErrorIf(Less(maxValue * Unit, value), fieldName,
                     fieldName \o " cannot exceed " \o ToString(maxValue))
          \o ErrorIf(decimalPlaces(value) > 2, fieldName,
                     fieldName \o " can have at most 2 decimal places"))

\* an absent string property, and the test !s of a string property
UndefinedString == "undefined"
Falsy(str) == str = "" \/ str = UndefinedString

\* the text of a number: whole part, then the decimals without trailing zeros
FormatNumber(value) ==
    LET abs == IF value < 0 THEN 0 - value ELSE value
        whole == ToString(abs \div Unit)
        frac == abs % Unit
        digits == IF frac % 100 = 0 THEN ToString(frac \div 100)
                  ELSE IF frac % 10 = 0 THEN (IF frac < 100 THEN "0" ELSE "") \o ToString(frac \div 10)
                  ELSE (IF frac < 10 THEN "00" ELSE IF frac < 100 THEN "0" ELSE "") \o ToString(frac)
    IN (IF value < 0 THEN "-" ELSE "") \o whole \o (IF frac = 0 THEN "" ELSE "." \o digits)

\* the errors validateMarks has collected when it reaches the test of the total
collectedErrors(marks) ==
       ErrorIf(Falsy(marks.studentId), "studentId", "Student ID is required")
    \o validateMark(marks.assignment, "assignment", MAX_MARKS.assignment).errors
    \o validateMark(marks.quiz, "quiz", MAX_MARKS.quiz).errors
    \o validateMark(marks.project, "project", MAX_MARKS.project).errors
    \o validateMark(marks.midsem, "midsem", MAX_MARKS.midsem).errors
    \o validateMark(marks.finalExam, "finalExam", MAX_MARKS.finalExam).errors

\* the guard of the test of the total: errors.length === 0
totalChecked(marks) == Len(collectedErrors(marks)) = 0

\* variant: the components after the first failing one are not validated
validateMarksFirstFailure(marks) ==
    LET componentErrors == collectedErrors(marks)
    IN IF Len(componentErrors) = 0
       THEN createResult(<< >>)
       ELSE createResult(<<componentErrors[1]>>)

validateMarks(marks) ==
    LET componentErrors == collectedErrors(marks)
        total == marks.assignment + marks.quiz + marks.project + marks.midsem + marks.finalExam
    IN IF Len(componentErrors) = 0
       THEN createResult(ErrorIf(total > MAX_TOTAL_MARKS * Unit, "total",
                "Total marks (" \o FormatNumber(total) \o ") cannot exceed "
                    \o ToString(MAX_TOTAL_MARKS)))
       ELSE createResult(componentErrors)

RECURSIVE Flatten(_)
Flatten(seqs) == IF Len(seqs) = 0 THEN << >> ELSE Head(seqs) \o Flatten(Tail(seqs))

RECURSIVE Join(_, _)
Join(strs, sep) ==
    IF Len(strs) = 0 THEN ""
    ELSE IF Len(strs) = 1 THEN strs[1]
    ELSE strs[1] \o sep \o Join(Tail(strs), sep)

\* studentIds.indexOf(id), as a position from 1
IndexOf(strs, id) == CHOOSE i \in 1..Len(strs) : strs[i] = id /\ \A j \in 1..(i - 1) : strs[j] # id

\* variant: one error per duplicated identifier instead of one aggregate error
validateBulkMarksPerDuplicate(marksArray) ==
    IF Len(marksArray) = 0
    THEN createResult(<<createError("marks", "At least one student's marks is required")>>)
    ELSE LET entryErrors(index) ==
                 LET result == validateMarks(marksArray[index])
                 IN [k \in 1..Len(result.errors) |->
                        [field |-> "marks[" \o ToString(index - 1) \o "]." \o result.errors[k].field,
                         message |-> result.errors[k].message]]
             studentIds == [i \in 1..Len(marksArray) |-> marksArray[i].studentId]
             duplicatePositions ==
                 SelectSeq([i \in 1..Len(studentIds) |-> i],
                           LAMBDA i : IndexOf(studentIds, studentIds[i]) # i)
         IN createResult(
                Flatten([index \in 1..Len(marksArray) |-> entryErrors(index)])
             \o [k \in 1..Len(duplicatePositions) |->
                    createError("marks", "Duplicate student IDs found: "
                                             \o studentIds[duplicatePositions[k]])])

validateBulkMarks(marksArray) ==
    IF Len(marksArray) = 0
    THEN createResult(<<createError("marks", "At least one student's marks is required")>>)
    ELSE LET entryErrors(index) ==
                 LET result == validateMarks(marksArray[index])
                 IN [k \in 1..Len(result.errors) |->
                        [field |-> "marks[" \o ToString(index - 1) \o "]." \o result.errors[k].field,
                         message |-> result.errors[k].message]]
             studentIds == [i \in 1..Len(marksArray) |-> marksArray[i].studentId]
             duplicatePositions ==
                 SelectSeq([i \in 1..Len(studentIds) |-> i],
                           LAMBDA i : IndexOf(studentIds, studentIds[i]) # i)
             duplicates == [k \in 1..Len(duplicatePositions) |-> studentIds[duplicatePositions[k]]]
         IN createResult(
                Flatten([index \in 1..Len(marksArray) |-> entryErrors(index)])
             \o ErrorIf(Len(duplicates) > 0, "marks",
                        "Duplicate student IDs found: " \o Join(duplicates, ", ")))

validateLoginCredentials(credentials) ==
    createResult(
        validateEmail(credentials.email).errors
     \o ErrorIf(Len(credentials.password) = 0, "password", "Password is required"))

validateLecturerRegistration(data) ==
    createResult(
        validateName(data.firstName, "firstName").errors
     \o validateName(data.lastName, "lastName").errors
     \o validateEmail(data.email).errors
     \o validatePhone(data.phone).errors
     \o validatePassword(data.password).errors
     \o ErrorIf(Falsy(data.courseId), "courseId", "Course ID is required"))

-----------------------------------------------------------------------------
(* utils/marks.ts: class statistics.  A marks array is a sequence of        *)
(* StudentMarks records; only totalScore and grade are read.                *)

ZeroDistribution == [g \in Grades |-> 0]

RECURSIVE distributionLoop(_, _, _)
distributionLoop(marksArray, i, distribution) ==
    IF i > Len(marksArray) THEN distribution
    ELSE distributionLoop(marksArray, i + 1,
             [distribution EXCEPT ![marksArray[i].grade] = @ + 1])

\* variant: the forEach stops one record short
calculateGradeDistributionShort(marksArray) ==
    distributionLoop(SubSeq(marksArray, 1, Len(marksArray) - 1), 1, ZeroDistribution)

calculateGradeDistribution(marksArray) == distributionLoop(marksArray, 1, ZeroDistribution)

RECURSIVE sumScores(_, _)
sumScores(marksArray, i) ==
    IF i > Len(marksArray) THEN 0 ELSE marksArray[i].totalScore + sumScores(marksArray, i + 1)

\* variant: no guard for the empty array; 0 / 0 is NaN
calculateAverageScoreUnguarded(marksArray) ==
    IF Len(marksArray) = 0 THEN NaN
    ELSE ((2 * sumScores(marksArray, 1) + 10 * Len(marksArray)) \div (20 * Len(marksArray))) * 10

\* Math.round((total / n) * 100) / 100 of a total in thousandths
calculateAverageScore(marksArray) ==
    IF Len(marksArray) = 0 THEN 0
    ELSE ((2 * sumScores(marksArray, 1) + 10 * Len(marksArray)) \div (20 * Len(marksArray))) * 10

RECURSIVE maxScore(_, _)
maxScore(marksArray, i) ==
    IF i = Len(marksArray) THEN marksArray[i].totalScore
    ELSE MathMax(marksArray[i].totalScore, maxScore(marksArray, i + 1))

RECURSIVE minScore(_, _)
minScore(marksArray, i) ==
    IF i = Len(marksArray) THEN marksArray[i].totalScore
    ELSE MathMin(marksArray[i].totalScore, minScore(marksArray, i + 1))

findHighestScore(marksArray) == IF Len(marksArray) = 0 THEN 0 ELSE maxScore(marksArray, 1)
findLowestScore(marksArray) == IF Len(marksArray) = 0 THEN 0 ELSE minScore(marksArray, 1)

passingCount(marksArray) ==
    Len(SelectSeq(marksArray, LAMBDA marks : isPassingGrade(marks.grade)))

\* variant: passing decided by the score instead of the grade
calculatePassRateByScore(marksArray) ==
    IF Len(marksArray) = 0 THEN 0
    ELSE LET n == Len(SelectSeq(marksArray, LAMBDA marks : marks.totalScore > MIN_PASSING_SCORE * Unit))
         IN ((2 * 10000 * n + Len(marksArray)) \div (2 * Len(marksArray))) * 10

\* Math.round((passingCount / n) * 100 * 100) / 100, a percentage in thousandths
calculatePassRate(marksArray) ==
    IF Len(marksArray) = 0 THEN 0
    ELSE ((2 * 10000 * passingCount(marksArray) + Len(marksArray)) \div (2 * Len(marksArray))) * 10

-----------------------------------------------------------------------------
(* useReporting *)

\* what the backend or the caller may put in a student's marks
MarksOfGrade(g, score) == [totalScore |-> score * Unit, grade |-> g]
SampleMarks == {MarksOfGrade("A", 95), MarksOfGrade("B+", 85), MarksOfGrade("F", 45)}

RECURSIVE StudentLists(_)
StudentLists(n) ==
    IF n = 0 THEN {<< >>}
    ELSE LET shorter == StudentLists(n - 1)
         IN shorter \cup {Append(l, [id |-> Len(l) + 1, marks |-> m]) :
                              l \in {x \in shorter : Len(x) = n - 1},
                              m \in SampleMarks \cup {Undefined}}

\* a statistics payload of the backend
ServerStatistics ==
    [courseId |-> "C1", totalStudents |-> 1, studentsWithMarks |-> 1,
     averageScore |-> 95 * Unit, highestScore |-> 95 * Unit, lowestScore |-> 95 * Unit,
     passRate |-> 100 * Unit, gradeDistribution |-> [ZeroDistribution EXCEPT !["A"] = 1]]

calculateStatistics(studentList, courseId) ==
    LET withMarks == SelectSeq(studentList, LAMBDA s : s.marks # Undefined)
        marksArray == [i \in 1..Len(withMarks) |-> withMarks[i].marks]
    IN [courseId |-> courseId,
        totalStudents |-> Len(studentList),
        studentsWithMarks |-> Len(withMarks),
        averageScore |-> calculateAverageScore(marksArray),
        highestScore |-> findHighestScore(marksArray),
        lowestScore |-> findLowestScore(marksArray),
        passRate |-> calculatePassRate(marksArray),
        gradeDistribution |-> calculateGradeDistribution(marksArray)]

\* a handler step: the operation, its argument, what it decided (the validation
\* verdict of a call, the outcome of a resumption) and what it returned
Step(op, verdict, ret, arg) == [op |-> op, verdict |-> verdict, ret |-> ret, arg |-> arg]

CalculateStatistics ==
    /\ hook = "useReporting"
    /\ statistics' = calculateStatistics(reportInput, "C1")
    /\ last' = Step("calculateStatistics", "none", "data", "none")
    /\ UNCHANGED <<rosterVars, hook, call, marksVars, authVars, isLoadingStatistics, reportError, reportPending, reportInput>>

\* fetchStatistics up to its await: flags set, getCourseStatistics issued
FetchStatistics ==
    /\ hook = "useReporting"
    /\ reportPending < MaxInFlight
    /\ reportError' = NULL
    /\ isLoadingStatistics' = TRUE
    /\ reportPending' = reportPending + 1
    /\ last' = Step("fetchStatistics", "none", "pending", "none")
    /\ UNCHANGED <<rosterVars, hook, call, marksVars, authVars, statistics, reportInput>>

\* the outcomes of a gateway call: a success, a failure with the backend's
\* message, or a fault raised by the call
GatewayOutcomes == {"success", "failure", "throw"}
ServerMessage == "HTTP 500"

\* fetchStatistics from its await on
FetchStatisticsResolve(outcome) ==
    /\ hook = "useReporting"
    /\ reportPending > 0
    /\ reportPending' = reportPending - 1
    /\ isLoadingStatistics' = FALSE
    /\ CASE outcome = "success" ->
               /\ statistics' = ServerStatistics
               /\ reportError' = reportError
               /\ last' = Step("fetchStatistics", "success", "data", "none")
         [] outcome = "failure" ->
               /\ reportError' = ServerMessage
               /\ statistics' = statistics
               /\ last' = Step("fetchStatistics", "failure", "null", "none")
         [] outcome = "throw" ->
               /\ reportError' = "Failed to fetch statistics"
               /\ statistics' = statistics
               /\ last' = Step("fetchStatistics", "throw", "null", "none")
    /\ UNCHANGED <<rosterVars, hook, call, marksVars, authVars, reportInput>>

-----------------------------------------------------------------------------
(* useMarks.  An async handler is two steps: the call, up to its await (the  *)
(* synchronous validation included), and the resumption, from the await on,  *)
(* with the outcome of the gateway call.  A gateway call is issued by        *)
(* adding it to the calls in flight.                                         *)

MarksOps == {"submitMarks", "updateStudentMarks", "submitBulkMarks", "fetchMarks"}

RECURSIVE InFlight(_, _)
InFlight(pending, ops) ==
    IF ops = {} THEN 0
    ELSE LET op == CHOOSE o \in ops : TRUE IN pending[op] + InFlight(pending, ops \ {op})

\* utils/marks.ts processMarks: the record with its derived fields
processMarks(input, id) ==
    [id |-> id, studentId |-> input.studentId,
     assignment |-> input.assignment, quiz |-> input.quiz, project |-> input.project,
     midsem |-> input.midsem, finalExam |-> input.finalExam,
     totalScore |-> calculateTotalScore(input),
     grade |-> calculateGrade(calculateTotalScore(input))]

\* the marks the forms submit: the README's example, the extremes, and the
\* example with one component replaced by a value validateMark rejects
ValidMarks(id) ==
    [studentId |-> id, assignment |-> ExampleMarks.assignment * Unit,
     quiz |-> ExampleMarks.quiz * Unit, project |-> ExampleMarks.project * Unit,
     midsem |-> ExampleMarks.midsem * Unit, finalExam |-> ExampleMarks.finalExam * Unit]
FullMarks(id) ==
    [studentId |-> id, assignment |-> MAX_MARKS.assignment * Unit, quiz |-> MAX_MARKS.quiz * Unit,
     project |-> MAX_MARKS.project * Unit, midsem |-> MAX_MARKS.midsem * Unit,
     finalExam |-> MAX_MARKS.finalExam * Unit]
ComponentNames == {Components[i] : i \in 1..Len(Components)}
BadValues(c) ==
    {(MAX_MARKS[c] + 1) * Unit, 0 - Unit, 125, NaN}
MarksInputs ==
    {ValidMarks("S1"), ValidMarks(""), FullMarks("S1")}
        \cup UNION {{[ValidMarks("S1") EXCEPT ![c] = v] : v \in BadValues(c)} : c \in ComponentNames}

OnlyComponent(id, c, v) ==
    [f \in ComponentNames |-> IF f = c THEN v ELSE AbsentNumber] @@ [studentId |-> id]
UpdatePayloads ==
    {ValidMarks("S1"), ValidMarks(""), FullMarks("S1"),
     [ValidMarks("S1") EXCEPT !.studentId = UndefinedString],
     [ValidMarks("S1") EXCEPT !.studentId = UndefinedString,
                              !.assignment = (MAX_MARKS.assignment + 1) * Unit],
     OnlyComponent(UndefinedString, "assignment", (MAX_MARKS.assignment + 1) * Unit),
     OnlyComponent(UndefinedString, "assignment", ExampleMarks.assignment * Unit)}
        \cup {[ValidMarks("S1") EXCEPT ![c] = (MAX_MARKS[c] + 1) * Unit] : c \in ComponentNames}
        \cup UNION {{OnlyComponent("S1", c, v) : v \in {(MAX_MARKS[c] + 1) * Unit, NaN,
                                                        ExampleMarks[c] * Unit}} :
                        c \in ComponentNames}

\* bulk batches: up to MaxBatch entries
BulkEntries == {ValidMarks("S1"), ValidMarks("S2"),
                [ValidMarks("") EXCEPT !.assignment = (MAX_MARKS.assignment + 1) * Unit]}
RECURSIVE Batches(_)
Batches(n) ==
    IF n = 0 THEN {<< >>}
    ELSE LET shorter == Batches(n - 1)
         IN shorter \cup {Append(b, e) : b \in {x \in shorter : Len(x) = n - 1}, e \in BulkEntries}
BulkInputs == {[marks |-> batch] : batch \in Batches(MaxBatch)}

\* the validators' results on the arguments the handlers are called with,
\* computed once
MarksValidation == [marks \in MarksInputs \cup UpdatePayloads |-> validateMarks(marks)]
BulkValidation == [bulkMarks \in BulkInputs |-> validateBulkMarks(bulkMarks.marks)]

\* what the backend answers with: a record whose derived fields are those of
\* processMarks, and one whose grade is not
ServerRecords ==
    {processMarks(ValidMarks("S1"), "M1"),
     [processMarks(ValidMarks("S1"), "M1") EXCEPT !.grade = "A"]}

\* variant: the early return after a failed validation is missing
SubmitMarksNoReturn(marks) ==
    LET validation == MarksValidation[marks]
    IN /\ hook = "useMarks"
       /\ IF marks = Null
          THEN /\ marksError' = "An unexpected error occurred while submitting marks"
               /\ success' = FALSE
               /\ isSubmitting' = FALSE
               /\ last' = Step("submitMarks", "fault", "false", marks)
               /\ UNCHANGED marksPending
          ELSE /\ InFlight(marksPending, MarksOps) < MaxInFlight
               /\ marksError' = IF validation.isValid THEN NULL ELSE validation.errors[1].message
               /\ success' = FALSE
               /\ isSubmitting' = TRUE
               /\ marksPending' = [marksPending EXCEPT !["submitMarks"] = @ + 1]
               /\ last' = Step("submitMarks", IF validation.isValid THEN "valid" ELSE "invalid",
                                "pending", marks)
       /\ UNCHANGED <<rosterVars, hook, call, reportVars, authVars, currentMarks, isUpdating, isFetching>>

\* submitMarks up to its await; validateMarks reads the properties of its
\* argument and throws on null, which the handler's catch turns into the
\* generic error
SubmitMarks(marks) ==
    LET validation == MarksValidation[marks]
    IN /\ hook = "useMarks"
       /\ IF marks = Null
          THEN /\ marksError' = "An unexpected error occurred while submitting marks"
               /\ success' = FALSE
               /\ isSubmitting' = FALSE
               /\ last' = Step("submitMarks", "fault", "false", marks)
               /\ UNCHANGED marksPending
          ELSE IF ~validation.isValid
          THEN /\ marksError' = validation.errors[1].message
               /\ success' = FALSE
               /\ isSubmitting' = FALSE
               /\ last' = Step("submitMarks", "invalid", "false", marks)
               /\ UNCHANGED marksPending
          ELSE /\ InFlight(marksPending, MarksOps) < MaxInFlight
               /\ marksError' = NULL
               /\ success' = FALSE
               /\ isSubmitting' = TRUE
               /\ marksPending' = [marksPending EXCEPT !["submitMarks"] = @ + 1]
               /\ last' = Step("submitMarks", "valid", "pending", marks)
       /\ UNCHANGED <<rosterVars, hook, call, reportVars, authVars, currentMarks, isUpdating, isFetching>>

\* variant: no catch block; a fault of createMarks leaves the handler as an
\* exception, the flags as they were
SubmitMarksResolveUncaught(outcome, data) ==
    /\ hook = "useMarks"
    /\ marksPending["submitMarks"] > 0
    /\ marksPending' = [marksPending EXCEPT !["submitMarks"] = @ - 1]
    /\ CASE outcome = "success" ->
               /\ currentMarks' = data
               /\ success' = TRUE
               /\ isSubmitting' = FALSE
               /\ marksError' = marksError
               /\ last' = Step("submitMarks", "success", "true", "none")
         [] outcome = "failure" ->
               /\ marksError' = ServerMessage
               /\ isSubmitting' = FALSE
               /\ UNCHANGED <<currentMarks, success>>
               /\ last' = Step("submitMarks", "failure", "false", "none")
         [] outcome = "throw" ->
               /\ UNCHANGED <<currentMarks, success, marksError, isSubmitting>>
               /\ last' = Step("submitMarks", "throw", "raised", "none")
    /\ UNCHANGED <<rosterVars, hook, call, reportVars, authVars, isUpdating, isFetching>>

\* submitMarks from its await on
SubmitMarksResolve(outcome, data) ==
    /\ hook = "useMarks"
    /\ marksPending["submitMarks"] > 0
    /\ marksPending' = [marksPending EXCEPT !["submitMarks"] = @ - 1]
    /\ isSubmitting' = FALSE
    /\ CASE outcome = "success" ->
               /\ currentMarks' = data
               /\ success' = TRUE
               /\ marksError' = marksError
               /\ last' = Step("submitMarks", "success", "true", "none")
         [] outcome = "failure" ->
               /\ marksError' = ServerMessage
               /\ UNCHANGED <<currentMarks, success>>
               /\ last' = Step("submitMarks", "failure", "false", "none")
         [] outcome = "throw" ->
               /\ marksError' = "An unexpected error occurred while submitting marks"
               /\ UNCHANGED <<currentMarks, success>>
               /\ last' = Step("submitMarks", "throw", "false", "none")
    /\ UNCHANGED <<rosterVars, hook, call, reportVars, authVars, isUpdating, isFetching>>

\* the test that guards the validation of an update payload
isComplete(marks) ==
    /\ ~Falsy(marks.studentId)
    /\ \A c \in ComponentNames : marks[c] # AbsentNumber

\* updateStudentMarks up to its await
UpdateStudentMarks(marksId, marks) ==
    LET validated == isComplete(marks)
        validation == MarksValidation[marks]
        invalid == validated /\ ~validation.isValid
    IN /\ hook = "useMarks"
       /\ IF marks = Null
          THEN /\ marksError' = "An unexpected error occurred while updating marks"
               /\ success' = FALSE
               /\ isUpdating' = FALSE
               /\ last' = Step("updateStudentMarks", "fault", "false", marks)
               /\ UNCHANGED marksPending
          ELSE IF invalid
          THEN /\ marksError' = validation.errors[1].message
               /\ success' = FALSE
               /\ isUpdating' = FALSE
               /\ last' = Step("updateStudentMarks", "invalid", "false", marks)
               /\ UNCHANGED marksPending
          ELSE /\ InFlight(marksPending, MarksOps) < MaxInFlight
               /\ marksError' = NULL
               /\ success' = FALSE
               /\ isUpdating' = TRUE
               /\ marksPending' = [marksPending EXCEPT !["updateStudentMarks"] = @ + 1]
               /\ last' = Step("updateStudentMarks", IF validated THEN "valid" ELSE "skipped",
                                "pending", marks)
       /\ UNCHANGED <<rosterVars, hook, call, reportVars, authVars, currentMarks, isSubmitting, isFetching>>

\* updateStudentMarks from its await on
UpdateStudentMarksResolve(outcome, data) ==
    /\ hook = "useMarks"
    /\ marksPending["updateStudentMarks"] > 0
    /\ marksPending' = [marksPending EXCEPT !["updateStudentMarks"] = @ - 1]
    /\ isUpdating' = FALSE
    /\ CASE outcome = "success" ->
               /\ currentMarks' = data
               /\ success' = TRUE
               /\ marksError' = marksError
               /\ last' = Step("updateStudentMarks", "success", "true", "none")
         [] outcome = "failure" ->
               /\ marksError' = ServerMessage
               /\ UNCHANGED <<currentMarks, success>>
               /\ last' = Step("updateStudentMarks", "failure", "false", "none")
         [] outcome = "throw" ->
               /\ marksError' = "An unexpected error occurred while updating marks"
               /\ UNCHANGED <<currentMarks, success>>
               /\ last' = Step("updateStudentMarks", "throw", "false", "none")
    /\ UNCHANGED <<rosterVars, hook, call, reportVars, authVars, isSubmitting, isFetching>>

\* submitBulkMarks up to its await
SubmitBulkMarks(bulkMarks) ==
    LET validation == BulkValidation[bulkMarks]
    IN /\ hook = "useMarks"
       /\ IF bulkMarks = Null
          THEN /\ marksError' = "An unexpected error occurred while submitting bulk marks"
               /\ success' = FALSE
               /\ isSubmitting' = FALSE
               /\ last' = Step("submitBulkMarks", "fault", "false", bulkMarks)
               /\ UNCHANGED marksPending
          ELSE IF ~validation.isValid
          THEN /\ marksError' = validation.errors[1].message
               /\ success' = FALSE
               /\ isSubmitting' = FALSE
               /\ last' = Step("submitBulkMarks", "invalid", "false", bulkMarks)
               /\ UNCHANGED marksPending
          ELSE /\ InFlight(marksPending, MarksOps) < MaxInFlight
               /\ marksError' = NULL
               /\ success' = FALSE
               /\ isSubmitting' = TRUE
               /\ marksPending' = [marksPending EXCEPT !["submitBulkMarks"] = @ + 1]
               /\ last' = Step("submitBulkMarks", "valid", "pending", bulkMarks)
       /\ UNCHANGED <<rosterVars, hook, call, reportVars, authVars, currentMarks, isUpdating, isFetching>>

\* submitBulkMarks from its await on
SubmitBulkMarksResolve(outcome) ==
    /\ hook = "useMarks"
    /\ marksPending["submitBulkMarks"] > 0
    /\ marksPending' = [marksPending EXCEPT !["submitBulkMarks"] = @ - 1]
    /\ isSubmitting' = FALSE
    /\ CASE outcome = "success" ->
               /\ success' = TRUE
               /\ marksError' = marksError
               /\ last' = Step("submitBulkMarks", "success", "true", "none")
         [] outcome = "failure" ->
               /\ marksError' = ServerMessage
               /\ success' = success
               /\ last' = Step("submitBulkMarks", "failure", "false", "none")
         [] outcome = "throw" ->
               /\ marksError' = "An unexpected error occurred while submitting bulk marks"
               /\ success' = success
               /\ last' = Step("submitBulkMarks", "throw", "false", "none")
    /\ UNCHANGED <<rosterVars, hook, call, reportVars, authVars, currentMarks, isUpdating, isFetching>>

\* fetchMarks up to its await
FetchMarks(studentId) ==
    /\ hook = "useMarks"
    /\ InFlight(marksPending, MarksOps) < MaxInFlight
    /\ isFetching' = TRUE
    /\ marksError' = NULL
    /\ marksPending' = [marksPending EXCEPT !["fetchMarks"] = @ + 1]
    /\ last' = Step("fetchMarks", "none", "pending", studentId)
    /\ UNCHANGED <<rosterVars, hook, call, reportVars, authVars, currentMarks, isSubmitting, isUpdating, success>>

\* fetchMarks from its await on
FetchMarksResolve(outcome, data) ==
    /\ hook = "useMarks"
    /\ marksPending["fetchMarks"] > 0
    /\ marksPending' = [marksPending EXCEPT !["fetchMarks"] = @ - 1]
    /\ isFetching' = FALSE
    /\ CASE outcome = "success" ->
               /\ currentMarks' = data
               /\ marksError' = marksError
               /\ last' = Step("fetchMarks", "success", "data", "none")
         [] outcome = "failure" ->
               /\ marksError' = ServerMessage
               /\ currentMarks' = currentMarks
               /\ last' = Step("fetchMarks", "failure", "null", "none")
         [] outcome = "throw" ->
               /\ marksError' = "Failed to fetch marks"
               /\ currentMarks' = currentMarks
               /\ last' = Step("fetchMarks", "throw", "null", "none")
    /\ UNCHANGED <<rosterVars, hook, call, reportVars, authVars, isSubmitting, isUpdating, success>>

ValidateMarksInput(marks) ==
    LET validation == MarksValidation[marks]
    IN /\ hook = "useMarks"
       /\ marksError' = IF validation.isValid THEN NULL ELSE validation.errors[1].message
       /\ last' = Step("validateMarksInput", IF validation.isValid THEN "valid" ELSE "invalid",
                        IF validation.isValid THEN "true" ELSE "false", marks)
       /\ UNCHANGED <<rosterVars, hook, call, reportVars, authVars, currentMarks, isSubmitting, isUpdating,
                      isFetching, success, marksPending>>

ClearStatus ==
    /\ hook = "useMarks"
    /\ marksError' = NULL
    /\ success' = FALSE
    /\ last' = Step("clearStatus", "none", "void", "none")
    /\ UNCHANGED <<rosterVars, hook, call, reportVars, authVars, currentMarks, isSubmitting, isUpdating,
                   isFetching, marksPending>>

-----------------------------------------------------------------------------
(* services/api.ts token storage, and useAuth *)

AuthOps == {"loadProfile", "login", "logout", "register", "refreshProfile"}
\* the operations a caller starts; loadProfile is started by the mount effect
\* and is in flight whatever the caller does
CallerOps == AuthOps \ {"loadProfile"}

isAuthenticated == token # NULL

\* the characters of a string literal
EmptyString == << >>
Repeat(ch, n) == [i \in 1..n |-> ch]
ValidEmail == <<"a", "@", "b", ".", "c">>
Emails ==
    {ValidEmail, EmptyString, <<"a", "b">>, <<"a", "@", "b">>, <<"a", " ", "@", "b", ".", "c">>,
     <<"a", "@">> \o Repeat("b", 252) \o <<".", "c">>, Repeat("a", 256)}
ValidPassword == <<"P", "a", "s", "s", "w", "0", "r", "d">>
Passwords ==
    {ValidPassword, EmptyString, <<"P", "a", "1">>, <<"p", "a", "s", "s", "w", "0", "r", "d">>,
     <<"P", "A", "S", "S", "W", "0", "R", "D">>, <<"P", "a", "s", "s", "w", "o", "r", "d">>}
ValidName == <<"A", "l">>
Names == {ValidName, EmptyString, <<"A">>, <<"A", "1">>, Repeat("a", 51), <<"d", "'", "A", "-", "B">>}
ValidPhone == <<"0", "7", "1", "2", "3", "4", "5", "6", "7", "8">>
Phones == {ValidPhone, EmptyString, <<"0", "7", "-", "1">>, Repeat("1", 16),
           <<"+">> \o ValidPhone \o <<" ", "9">>}

LoginInputs == {[email |-> e, password |-> pw] : e \in Emails, pw \in {ValidPassword, EmptyString}}

ValidRegistration ==
    [firstName |-> ValidName, lastName |-> ValidName, email |-> ValidEmail,
     phone |-> ValidPhone, password |-> ValidPassword, courseId |-> "C1"]
RegistrationInputs ==
    {[ValidRegistration EXCEPT !.firstName = n] : n \in Names}
        \cup {[ValidRegistration EXCEPT !.lastName = n] : n \in Names}
        \cup {[ValidRegistration EXCEPT !.email = e] : e \in Emails}
        \cup {[ValidRegistration EXCEPT !.phone = ph] : ph \in Phones}
        \cup {[ValidRegistration EXCEPT !.password = pw] : pw \in Passwords}
        \cup {[ValidRegistration EXCEPT !.courseId = ""]}

\* the validators' results on the arguments login and register are called with
LoginValidation == [credentials \in LoginInputs |-> validateLoginCredentials(credentials)]
RegistrationValidation == [data \in RegistrationInputs |-> validateLecturerRegistration(data)]

\* what the backend answers with
Lecturers == {[id |-> "L1"], [id |-> "L2"]}
LoginResponses == {[token |-> "T1", lecturer |-> l] : l \in Lecturers}
\* fetchAPI: the message of a failure is the body's message or "HTTP <status>"
FailureMessages == {ServerMessage, "Invalid credentials"}
StoredTokens == {NULL, "T0"}

\* variant: the early return after a failed validation is missing
LoginNoReturn(credentials) ==
    LET validation == LoginValidation[credentials]
    IN /\ hook = "useAuth"
       /\ InFlight(authPending, CallerOps) < MaxInFlight
       /\ authError' = IF validation.isValid THEN NULL ELSE validation.errors[1].message
       /\ isAuthenticating' = TRUE
       /\ authPending' = [authPending EXCEPT !["login"] = @ + 1]
       /\ last' = Step("login", IF validation.isValid THEN "valid" ELSE "invalid",
                        "pending", credentials)
       /\ UNCHANGED <<rosterVars, hook, call, reportVars, marksVars, lecturer, token, authIsLoading,
                      isRegistering>>

\* login up to its await
Login(credentials) ==
    LET validation == LoginValidation[credentials]
    IN /\ hook = "useAuth"
       /\ IF credentials = Null
          THEN /\ authError' = "An unexpected error occurred during login"
               /\ isAuthenticating' = FALSE
               /\ last' = Step("login", "fault", "false", credentials)
               /\ UNCHANGED authPending
          ELSE IF ~validation.isValid
          THEN /\ authError' = validation.errors[1].message
               /\ isAuthenticating' = FALSE
               /\ last' = Step("login", "invalid", "false", credentials)
               /\ UNCHANGED authPending
          ELSE /\ InFlight(authPending, CallerOps) < MaxInFlight
               /\ authError' = NULL
               /\ isAuthenticating' = TRUE
               /\ authPending' = [authPending EXCEPT !["login"] = @ + 1]
               /\ last' = Step("login", "valid", "pending", credentials)
       /\ UNCHANGED <<rosterVars, hook, call, reportVars, marksVars, lecturer, token, authIsLoading,
                      isRegistering>>

\* variant: a failed login drops the held identity and the stored token
LoginResolveClearing(outcome, data, message) ==
    /\ hook = "useAuth"
    /\ authPending["login"] > 0
    /\ authPending' = [authPending EXCEPT !["login"] = @ - 1]
    /\ isAuthenticating' = FALSE
    /\ CASE outcome = "success" ->
               /\ token' = data.token
               /\ lecturer' = data.lecturer
               /\ authError' = authError
               /\ last' = Step("login", "success", "true", data)
         [] outcome = "failure" ->
               /\ authError' = message
               /\ token' = NULL
               /\ lecturer' = Null
               /\ last' = Step("login", "failure", "false", message)
         [] outcome = "throw" ->
               /\ authError' = "An unexpected error occurred during login"
               /\ UNCHANGED <<token, lecturer>>
               /\ last' = Step("login", "throw", "false", "none")
    /\ UNCHANGED <<rosterVars, hook, call, reportVars, marksVars, authIsLoading, isRegistering>>

\* login from its await on: loginLecturer stores the token of a success; the
\* step records the gateway's response (the data of a success, the message of
\* a failure)
LoginResolve(outcome, data, message) ==
    /\ hook = "useAuth"
    /\ authPending["login"] > 0
    /\ authPending' = [authPending EXCEPT !["login"] = @ - 1]
    /\ isAuthenticating' = FALSE
    /\ CASE outcome = "success" ->
               /\ token' = data.token
               /\ lecturer' = data.lecturer
               /\ authError' = authError
               /\ last' = Step("login", "success", "true", data)
         [] outcome = "failure" ->
               /\ authError' = message
               /\ UNCHANGED <<token, lecturer>>
               /\ last' = Step("login", "failure", "false", message)
         [] outcome = "throw" ->
               /\ authError' = "An unexpected error occurred during login"
               /\ UNCHANGED <<token, lecturer>>
               /\ last' = Step("login", "throw", "false", "none")
    /\ UNCHANGED <<rosterVars, hook, call, reportVars, marksVars, authIsLoading, isRegistering>>

\* logout up to its await
Logout ==
    /\ hook = "useAuth"
    /\ InFlight(authPending, CallerOps) < MaxInFlight
    /\ authPending' = [authPending EXCEPT !["logout"] = @ + 1]
    /\ last' = Step("logout", "none", "pending", "none")
    /\ UNCHANGED <<rosterVars, hook, call, reportVars, marksVars, lecturer, token, authIsLoading,
                   isAuthenticating, isRegistering, authError>>

\* variant: the session is cleared only when the remote logout succeeded
LogoutResolveOnSuccess(outcome) ==
    /\ hook = "useAuth"
    /\ authPending["logout"] > 0
    /\ authPending' = [authPending EXCEPT !["logout"] = @ - 1]
    /\ lecturer' = IF outcome = "success" THEN Null ELSE lecturer
    /\ token' = IF outcome = "success" THEN NULL ELSE token
    /\ authError' = IF outcome = "throw" THEN authError ELSE NULL
    /\ last' = Step("logout", outcome, "void", "none")
    /\ UNCHANGED <<rosterVars, hook, call, reportVars, marksVars, authIsLoading, isAuthenticating,
                   isRegistering>>

\* logout from its await on: logoutLecturer removes the token whatever the
\* response; a fault is caught and the token cleared by clearAuthData
LogoutResolve(outcome) ==
    /\ hook = "useAuth"
    /\ authPending["logout"] > 0
    /\ authPending' = [authPending EXCEPT !["logout"] = @ - 1]
    /\ lecturer' = Null
    /\ token' = NULL
    /\ authError' = IF outcome = "throw" THEN authError ELSE NULL
    /\ last' = Step("logout", outcome, "void", "none")
    /\ UNCHANGED <<rosterVars, hook, call, reportVars, marksVars, authIsLoading, isAuthenticating,
                   isRegistering>>

\* register up to its await
Register(data) ==
    LET validation == RegistrationValidation[data]
    IN /\ hook = "useAuth"
       /\ IF data = Null
          THEN /\ authError' = "An unexpected error occurred during registration"
               /\ isRegistering' = FALSE
               /\ last' = Step("register", "fault", "false", data)
               /\ UNCHANGED authPending
          ELSE IF ~validation.isValid
          THEN /\ authError' = validation.errors[1].message
               /\ isRegistering' = FALSE
               /\ last' = Step("register", "invalid", "false", data)
               /\ UNCHANGED authPending
          ELSE /\ InFlight(authPending, CallerOps) < MaxInFlight
               /\ authError' = NULL
               /\ isRegistering' = TRUE
               /\ authPending' = [authPending EXCEPT !["register"] = @ + 1]
               /\ last' = Step("register", "valid", "pending", data)
       /\ UNCHANGED <<rosterVars, hook, call, reportVars, marksVars, lecturer, token, authIsLoading,
                      isAuthenticating>>

\* register from its await on
RegisterResolve(outcome) ==
    /\ hook = "useAuth"
    /\ authPending["register"] > 0
    /\ authPending' = [authPending EXCEPT !["register"] = @ - 1]
    /\ isRegistering' = FALSE
    /\ CASE outcome = "success" ->
               /\ authError' = authError
               /\ last' = Step("register", "success", "true", "none")
         [] outcome = "failure" ->
               /\ authError' = ServerMessage
               /\ last' = Step("register", "failure", "false", "none")
         [] outcome = "throw" ->
               /\ authError' = "An unexpected error occurred during registration"
               /\ last' = Step("register", "throw", "false", "none")
    /\ UNCHANGED <<rosterVars, hook, call, reportVars, marksVars, lecturer, token, authIsLoading,
                   isAuthenticating>>

\* refreshProfile up to its await; without a token it returns at once
RefreshProfile ==
    /\ hook = "useAuth"
    /\ IF ~isAuthenticated
       THEN /\ last' = Step("refreshProfile", "none", "void", "none")
            /\ UNCHANGED authPending
       ELSE /\ InFlight(authPending, CallerOps) < MaxInFlight
            /\ authPending' = [authPending EXCEPT !["refreshProfile"] = @ + 1]
            /\ last' = Step("refreshProfile", "none", "pending", "none")
    /\ UNCHANGED <<rosterVars, hook, call, reportVars, marksVars, lecturer, token, authIsLoading,
                   isAuthenticating, isRegistering, authError>>

\* refreshProfile from its await on
RefreshProfileResolve(outcome, data) ==
    /\ hook = "useAuth"
    /\ authPending["refreshProfile"] > 0
    /\ authPending' = [authPending EXCEPT !["refreshProfile"] = @ - 1]
    /\ lecturer' = IF outcome = "success" THEN data ELSE lecturer
    /\ last' = Step("refreshProfile", outcome, "void", "none")
    /\ UNCHANGED <<rosterVars, hook, call, reportVars, marksVars, token, authIsLoading, isAuthenticating,
                   isRegistering, authError>>

\* the mount effect loadProfile from its await on
LoadProfileResolve(outcome, data) ==
    /\ hook = "useAuth"
    /\ authPending["loadProfile"] > 0
    /\ authPending' = [authPending EXCEPT !["loadProfile"] = @ - 1]
    /\ lecturer' = IF outcome = "success" THEN data ELSE lecturer
    /\ token' = IF outcome = "failure" THEN NULL ELSE token
    /\ authIsLoading' = FALSE
    /\ last' = Step("loadProfile", outcome, "void", "none")
    /\ UNCHANGED <<rosterVars, hook, call, reportVars, marksVars, isAuthenticating, isRegistering, authError>>

ClearError ==
    /\ hook = "useAuth"
    /\ authError' = NULL
    /\ last' = Step("clearError", "none", "void", "none")
    /\ UNCHANGED <<rosterVars, hook, call, reportVars, marksVars, lecturer, token, authIsLoading,
                   isAuthenticating, isRegistering, authPending>>

-----------------------------------------------------------------------------
(* useStudents.  fetchStudentsWithMarks awaits Promise.all of two gateway     *)
(* calls: the response that arrives first is kept by the promise and the     *)
(* handler resumes when the second one arrives, or as soon as one of the     *)
(* calls throws.  The arrival of the first response is a step of its own; it *)
(* changes nothing the hook holds, so the data it carries is drawn when the  *)
(* handler resumes.                                                          *)

RosterCourses == {"C1", "C2"}

\* a fetch in flight: the operation, its course, and whether refresh issued it
RosterCall(op, courseId, refresh) == [op |-> op, courseId |-> courseId, refresh |-> refresh]
RosterCalls ==
    {RosterCall(op, c, r) : op \in {"fetchStudents", "fetchStudentsWithMarks"},
                            c \in RosterCourses, r \in BOOLEAN}
        \cup {RosterCall("fetchStudent", "none", FALSE)}

\* what the backend answers with: the students of a course, and its marks (of
\* a student of the course, of a student the course does not have, and two
\* records of one student)
StudentRecord(id) == [id |-> id]
RosterData(courseId) ==
    IF courseId = "C1" THEN {<< >>, <<StudentRecord("S1"), StudentRecord("S2")>>}
    ELSE {<< >>, <<StudentRecord("S3")>>}
CourseMarksData ==
    {<< >>,
     <<processMarks(ValidMarks("S1"), "M1")>>,
     <<processMarks(ValidMarks("S9"), "M9"), processMarks(ValidMarks("S1"), "M1"),
       processMarks(FullMarks("S1"), "M2")>>}

\* the data of a response: only a success carries any
DataOf(outcome, data) == IF outcome = "success" THEN data ELSE {<< >>}

\* new Map(marksData.map(mark => [mark.studentId, mark])).get(id): the last
\* record of the student, or undefined
marksMapGet(marksData, id) ==
    LET positions == {i \in 1..Len(marksData) : marksData[i].studentId = id}
    IN IF positions = {} THEN Undefined
       ELSE marksData[CHOOSE i \in positions : \A j \in positions : j <= i]

\* variant: an inner join; a student without marks is dropped
combinedInner(studentsData, marksData) ==
    LET withMarks == SelectSeq(studentsData, LAMBDA s : marksMapGet(marksData, s.id) # Undefined)
    IN [i \in 1..Len(withMarks) |->
           [id |-> withMarks[i].id, marks |-> marksMapGet(marksData, withMarks[i].id)]]

\* the join of fetchStudentsWithMarks
combined(studentsData, marksData) ==
    [i \in 1..Len(studentsData) |->
        [id |-> studentsData[i].id, marks |-> marksMapGet(marksData, studentsData[i].id)]]

\* the fetchStudentsWithMarks calls in flight neither of whose responses has arrived
Unsettled(key) == rosterPending[key] - halfSettled[key].students - halfSettled[key].marks

\* fetchStudents up to its await
fetchStudentsStart(courseId, refresh) ==
    /\ rosterError' = NULL
    /\ rosterIsLoading' = TRUE
    /\ rosterPending' = [rosterPending EXCEPT ![RosterCall("fetchStudents", courseId, refresh)] = @ + 1]
    /\ lastRequestedCourseId' = courseId

\* fetchStudentsWithMarks up to its await
fetchStudentsWithMarksStart(courseId, refresh) ==
    /\ rosterError' = NULL
    /\ rosterIsLoading' = TRUE
    /\ rosterPending' =
           [rosterPending EXCEPT ![RosterCall("fetchStudentsWithMarks", courseId, refresh)] = @ + 1]
    /\ lastRequestedCourseId' = courseId

FetchStudents(courseId) ==
    /\ hook = "useStudents"
    /\ InFlight(rosterPending, RosterCalls) < MaxFetches
    /\ fetchStudentsStart(courseId, FALSE)
    /\ last' = Step("fetchStudents", "none", "pending", courseId)
    /\ UNCHANGED <<hook, call, reportVars, marksVars, authVars, students, studentsWithMarks,
                   isRefreshing, lastFetchedCourseId, halfSettled, lastShape>>

\* variant: a response is applied only when its course is the one requested last
FetchStudentsResolveLatestOnly(courseId, refresh, outcome, data) ==
    /\ hook = "useStudents"
    /\ rosterPending[RosterCall("fetchStudents", courseId, refresh)] > 0
    /\ rosterPending' = [rosterPending EXCEPT ![RosterCall("fetchStudents", courseId, refresh)] = @ - 1]
    /\ rosterIsLoading' = FALSE
    /\ isRefreshing' = IF refresh THEN FALSE ELSE isRefreshing
    /\ CASE outcome = "success" /\ courseId = lastRequestedCourseId ->
               /\ students' = data
               /\ lastFetchedCourseId' = courseId
               /\ lastShape' = "students"
               /\ rosterError' = rosterError
         [] outcome = "success" /\ courseId # lastRequestedCourseId ->
               UNCHANGED <<students, lastFetchedCourseId, lastShape, rosterError>>
         [] outcome = "failure" ->
               /\ rosterError' = ServerMessage
               /\ students' = << >>
               /\ UNCHANGED <<lastFetchedCourseId, lastShape>>
         [] outcome = "throw" ->
               /\ rosterError' = "Failed to fetch students"
               /\ students' = << >>
               /\ UNCHANGED <<lastFetchedCourseId, lastShape>>
    /\ last' = Step(IF refresh THEN "refresh" ELSE "fetchStudents", outcome, "void",
                    [students |-> outcome, marks |-> "none", first |-> "none",
                     studentsData |-> data, marksData |-> << >>])
    /\ UNCHANGED <<hook, call, reportVars, marksVars, authVars, studentsWithMarks, halfSettled,
                   lastRequestedCourseId>>

\* fetchStudents from its await on; a fetch issued by refresh then returns
\* into refresh, which clears isRefreshing
FetchStudentsResolve(courseId, refresh, outcome, data) ==
    /\ hook = "useStudents"
    /\ rosterPending[RosterCall("fetchStudents", courseId, refresh)] > 0
    /\ rosterPending' = [rosterPending EXCEPT ![RosterCall("fetchStudents", courseId, refresh)] = @ - 1]
    /\ rosterIsLoading' = FALSE
    /\ isRefreshing' = IF refresh THEN FALSE ELSE isRefreshing
    /\ CASE outcome = "success" ->
               /\ students' = data
               /\ lastFetchedCourseId' = courseId
               /\ lastShape' = "students"
               /\ rosterError' = rosterError
         [] outcome = "failure" ->
               /\ rosterError' = ServerMessage
               /\ students' = << >>
               /\ UNCHANGED <<lastFetchedCourseId, lastShape>>
         [] outcome = "throw" ->
               /\ rosterError' = "Failed to fetch students"
               /\ students' = << >>
               /\ UNCHANGED <<lastFetchedCourseId, lastShape>>
    /\ last' = Step(IF refresh THEN "refresh" ELSE "fetchStudents", outcome, "void",
                    [students |-> outcome, marks |-> "none", first |-> "none",
                     studentsData |-> data, marksData |-> << >>])
    /\ UNCHANGED <<hook, call, reportVars, marksVars, authVars, studentsWithMarks, halfSettled,
                   lastRequestedCourseId>>

FetchStudentsWithMarks(courseId) ==
    /\ hook = "useStudents"
    /\ InFlight(rosterPending, RosterCalls) = 0
    /\ fetchStudentsWithMarksStart(courseId, FALSE)
    /\ last' = Step("fetchStudentsWithMarks", "none", "pending", courseId)
    /\ UNCHANGED <<hook, call, reportVars, marksVars, authVars, students, studentsWithMarks,
                   isRefreshing, lastFetchedCourseId, halfSettled, lastShape>>

\* the first of the two responses of a fetchStudentsWithMarks arrives without
\* a fault: Promise.all keeps it and the handler stays suspended
FirstResponse(courseId, refresh, which) ==
    LET key == RosterCall("fetchStudentsWithMarks", courseId, refresh)
    IN /\ hook = "useStudents"
       /\ Unsettled(key) > 0
       /\ halfSettled' = [halfSettled EXCEPT ![key][which] = @ + 1]
       /\ last' = Step(IF which = "students" THEN "getStudentsByCourse" ELSE "getMarksByCourse",
                       "arrived", "none", key)
       /\ UNCHANGED <<hook, call, reportVars, marksVars, authVars, students, studentsWithMarks,
                      rosterIsLoading, isRefreshing, rosterError, lastFetchedCourseId,
                      rosterPending, lastRequestedCourseId, lastShape>>

\* variant: the handler resumes with the response that arrives first
FetchStudentsWithMarksResolveEager(courseId, refresh, first, studentsOutcome, marksOutcome, studentsData, marksData) ==
    LET key == RosterCall("fetchStudentsWithMarks", courseId, refresh)
        outcome == IF "throw" \in {studentsOutcome, marksOutcome} THEN "throw"
                   ELSE studentsOutcome
    IN /\ hook = "useStudents"
       /\ rosterPending[key] > 0
       /\ CASE first = "students" -> halfSettled[key].students > 0 /\ studentsOutcome # "throw"
            [] first = "marks" -> halfSettled[key].marks > 0 /\ marksOutcome # "throw"
            [] first = "none" -> Unsettled(key) > 0
       /\ rosterPending' = [rosterPending EXCEPT ![key] = @ - 1]
       /\ halfSettled' = IF first = "none" THEN halfSettled
                         ELSE [halfSettled EXCEPT ![key][first] = @ - 1]
       /\ rosterIsLoading' = FALSE
       /\ isRefreshing' = IF refresh THEN FALSE ELSE isRefreshing
       /\ CASE outcome = "success" ->
                  /\ studentsWithMarks' =
                         combined(studentsData, IF marksOutcome = "success" THEN marksData ELSE << >>)
                  /\ students' = studentsData
                  /\ lastFetchedCourseId' = courseId
                  /\ lastShape' = "withMarks"
                  /\ rosterError' = rosterError
            [] outcome = "failure" ->
                  /\ rosterError' = ServerMessage
                  /\ studentsWithMarks' = << >>
                  /\ UNCHANGED <<students, lastFetchedCourseId, lastShape>>
            [] outcome = "throw" ->
                  /\ rosterError' = "Failed to fetch students with marks"
                  /\ studentsWithMarks' = << >>
                  /\ UNCHANGED <<students, lastFetchedCourseId, lastShape>>
       /\ last' = Step(IF refresh THEN "refresh" ELSE "fetchStudentsWithMarks", outcome, "void",
                       [students |-> studentsOutcome, marks |-> marksOutcome, first |-> first,
                        studentsData |-> studentsData, marksData |-> marksData])
       /\ UNCHANGED <<hook, call, reportVars, marksVars, authVars, lastRequestedCourseId>>

\* fetchStudentsWithMarks from its await on.  first is the response that had
\* arrived before this step: the handler resumes with both responses when the
\* other one arrives, and in its catch block as soon as a call throws, which
\* may be the first to settle (first = "none")
FetchStudentsWithMarksResolve(courseId, refresh, first, studentsOutcome, marksOutcome, studentsData, marksData) ==
    LET key == RosterCall("fetchStudentsWithMarks", courseId, refresh)
        outcome == IF "throw" \in {studentsOutcome, marksOutcome} THEN "throw"
                   ELSE studentsOutcome
    IN /\ hook = "useStudents"
       /\ rosterPending[key] > 0
       /\ CASE first = "students" -> halfSettled[key].students > 0 /\ studentsOutcome # "throw"
            [] first = "marks" -> halfSettled[key].marks > 0 /\ marksOutcome # "throw"
            [] first = "none" -> Unsettled(key) > 0 /\ outcome = "throw"
       /\ rosterPending' = [rosterPending EXCEPT ![key] = @ - 1]
       /\ halfSettled' = IF first = "none" THEN halfSettled
                         ELSE [halfSettled EXCEPT ![key][first] = @ - 1]
       /\ rosterIsLoading' = FALSE
       /\ isRefreshing' = IF refresh THEN FALSE ELSE isRefreshing
       /\ CASE outcome = "success" ->
                  /\ studentsWithMarks' =
                         combined(studentsData, IF marksOutcome = "success" THEN marksData ELSE << >>)
                  /\ students' = studentsData
                  /\ lastFetchedCourseId' = courseId
                  /\ lastShape' = "withMarks"
                  /\ rosterError' = rosterError
            [] outcome = "failure" ->
                  /\ rosterError' = ServerMessage
                  /\ studentsWithMarks' = << >>
                  /\ UNCHANGED <<students, lastFetchedCourseId, lastShape>>
            [] outcome = "throw" ->
                  /\ rosterError' = "Failed to fetch students with marks"
                  /\ studentsWithMarks' = << >>
                  /\ UNCHANGED <<students, lastFetchedCourseId, lastShape>>
       /\ last' = Step(IF refresh THEN "refresh" ELSE "fetchStudentsWithMarks", outcome, "void",
                       [students |-> studentsOutcome, marks |-> marksOutcome, first |-> first,
                        studentsData |-> studentsData, marksData |-> marksData])
       /\ UNCHANGED <<hook, call, reportVars, marksVars, authVars, lastRequestedCourseId>>

\* fetchStudent up to its await
FetchStudent(studentId) ==
    /\ hook = "useStudents"
    /\ InFlight(rosterPending, RosterCalls) = 0
    /\ rosterPending' = [rosterPending EXCEPT ![RosterCall("fetchStudent", "none", FALSE)] = @ + 1]
    /\ last' = Step("fetchStudent", "none", "pending", studentId)
    /\ UNCHANGED <<hook, call, reportVars, marksVars, authVars, students, studentsWithMarks,
                   rosterIsLoading, isRefreshing, rosterError, lastFetchedCourseId, halfSettled,
                   lastRequestedCourseId, lastShape>>

\* fetchStudent from its await on: the student or null, the state untouched
FetchStudentResolve(outcome) ==
    /\ hook = "useStudents"
    /\ rosterPending[RosterCall("fetchStudent", "none", FALSE)] > 0
    /\ rosterPending' = [rosterPending EXCEPT ![RosterCall("fetchStudent", "none", FALSE)] = @ - 1]
    /\ last' = Step("fetchStudent", outcome, IF outcome = "success" THEN "data" ELSE "null",
                    [students |-> outcome, marks |-> "none"])
    /\ UNCHANGED <<hook, call, reportVars, marksVars, authVars, students, studentsWithMarks,
                   rosterIsLoading, isRefreshing, rosterError, lastFetchedCourseId, halfSettled,
                   lastRequestedCourseId, lastShape>>

\* refresh up to the await of the fetch it issues: with marks when
\* studentsWithMarks is not empty, students only otherwise
Refresh ==
    /\ hook = "useStudents"
    /\ IF Falsy(lastFetchedCourseId)
       THEN /\ last' = Step("refresh", "skipped", "void", "none")
            /\ UNCHANGED <<rosterError, rosterIsLoading, rosterPending, isRefreshing,
                           lastRequestedCourseId>>
       ELSE /\ InFlight(rosterPending, RosterCalls) = 0
            /\ isRefreshing' = TRUE
            /\ IF Len(studentsWithMarks) > 0
               THEN /\ fetchStudentsWithMarksStart(lastFetchedCourseId, TRUE)
                    /\ last' = Step("refresh", "none", "pending",
                                    RosterCall("fetchStudentsWithMarks", lastFetchedCourseId, TRUE))
               ELSE /\ fetchStudentsStart(lastFetchedCourseId, TRUE)
                    /\ last' = Step("refresh", "none", "pending",
                                    RosterCall("fetchStudents", lastFetchedCourseId, TRUE))
    /\ UNCHANGED <<hook, call, reportVars, marksVars, authVars, students, studentsWithMarks,
                   lastFetchedCourseId, halfSettled, lastShape>>

ClearStudentsError ==
    /\ hook = "useStudents"
    /\ rosterError' = NULL
    /\ last' = Step("clearError", "none", "void", "none")
    /\ UNCHANGED <<hook, call, reportVars, marksVars, authVars, students, studentsWithMarks,
                   rosterIsLoading, isRefreshing, lastFetchedCourseId, rosterPending, halfSettled,
                   lastRequestedCourseId, lastShape>>

-----------------------------------------------------------------------------
(* utils/export.ts.  A text is a sequence of tokens: each of the characters  *)
(* the CSV format gives a meaning to (comma, double quote, line feed,        *)
(* carriage return) is a token of its own, and a run of other characters is  *)
(* one token.                                                                *)

Comma == ","
Quote == "\""
LineFeed == "\n"
CarriageReturn == "\r"

\* String(value) of a number
StringOfNumber(value) == <<FormatNumber(value)>>

\* array.join(separator), for texts
RECURSIVE JoinTexts(_, _)
JoinTexts(texts, separator) ==
    IF Len(texts) = 0 THEN << >>
    ELSE IF Len(texts) = 1 THEN texts[1]
    ELSE texts[1] \o separator \o JoinTexts(Tail(texts), separator)

\* str.replace(/"/g, '""')
doubleQuotes(str) == Flatten([i \in 1..Len(str) |-> IF str[i] = Quote THEN <<Quote, Quote>> ELSE <<str[i]>>])

includes(str, ch) == \E i \in 1..Len(str) : str[i] = ch

escapeCSV(str) ==
    IF includes(str, Comma) \/ includes(str, Quote) \/ includes(str, LineFeed)
    THEN <<Quote>> \o doubleQuotes(str) \o <<Quote>>
    ELSE str

arrayToCSV(headers, rows) ==
    LET csvHeaders == JoinTexts([i \in 1..Len(headers) |-> escapeCSV(headers[i])], <<Comma>>)
        csvRow(row) == JoinTexts([i \in 1..Len(row) |-> escapeCSV(row[i])], <<Comma>>)
        csvRows == JoinTexts([i \in 1..Len(rows) |-> csvRow(rows[i])], <<LineFeed>>)
    IN csvHeaders \o <<LineFeed>> \o csvRows

exportHeaders ==
    <<<<"Registration Number">>, <<"First Name">>, <<"Last Name">>, <<"Email">>,
      <<"Assignment (10)">>, <<"Quiz (15)">>, <<"Project (25)">>, <<"Midsem (20)">>,
      <<"Final Exam (30)">>, <<"Total Score (100)">>, <<"Grade">>, <<"Status">>>>

\* the row of a student: marks?.x ?? 'N/A' for the marks columns
exportRow(student) ==
    LET marks == student.marks
        number(field) == IF marks = Undefined THEN <<"N/A">> ELSE StringOfNumber(marks[field])
    IN <<student.registrationNumber, student.firstName, student.lastName, student.email,
         number("assignment"), number("quiz"), number("project"), number("midsem"),
         number("finalExam"), number("totalScore"),
         IF marks = Undefined THEN <<"N/A">> ELSE <<marks.grade>>,
         IF marks = Undefined THEN <<"No Marks">>
         ELSE IF marks.grade # "F" THEN <<"Pass">> ELSE <<"Fail">>>>

\* the data of exportMarksToCSV(students)
exportMarksToCSV(list) ==
    arrayToCSV(exportHeaders, [i \in 1..Len(list) |-> exportRow(list[i])])

\* the students exported: the first one's first name runs over every text of
\* up to MaxText tokens, with no marks, passing marks (one with decimals) or
\* failing marks
TextTokens == {Comma, Quote, LineFeed, CarriageReturn, "a"}
RECURSIVE Texts(_)
Texts(n) ==
    IF n = 0 THEN {<< >>}
    ELSE LET shorter == Texts(n - 1)
         IN shorter \cup {Append(t, ch) : t \in {x \in shorter : Len(x) = n - 1}, ch \in TextTokens}
ExportedMarks ==
    {Undefined,
     processMarks([ValidMarks("S1") EXCEPT !.assignment = 8500], "M1"),
     processMarks([f \in ComponentNames |-> 0] @@ [studentId |-> "S1"], "M3")}
ExportedStudent(firstName, lastName, marks) ==
    [registrationNumber |-> <<"R1">>, firstName |-> firstName, lastName |-> lastName,
     email |-> <<"a@b.c">>, marks |-> marks]
FirstStudents == {ExportedStudent(t, <<"a">>, m) : t \in Texts(MaxText), m \in ExportedMarks}
FollowingStudents ==
    {ExportedStudent(<<"a">>, <<"a", Comma, Quote>>, Undefined),
     ExportedStudent(<<"a">>, <<"a">>, processMarks(ValidMarks("S2"), "M2"))}
RECURSIVE ExportLists(_)
ExportLists(n) ==
    IF n = 0 THEN {<< >>}
    ELSE LET shorter == ExportLists(n - 1)
         IN shorter \cup {Append(l, st) : l \in {x \in shorter : Len(x) = n - 1},
                                          st \in IF n = 1 THEN FirstStudents ELSE FollowingStudents}

PendingExport(list) == [fn |-> "exportMarksToCSV", arg |-> list, done |-> FALSE, data |-> << >>]
ExportCalls == {PendingExport(list) : list \in ExportLists(MaxRows)}

ExportMarksToCSV ==
    /\ hook = "export"
    /\ call.fn = "exportMarksToCSV" /\ ~call.done
    /\ call' = [call EXCEPT !.done = TRUE, !.data = exportMarksToCSV(call.arg)]
    /\ UNCHANGED <<rosterVars, hook, reportVars, marksVars, authVars, last>>

-----------------------------------------------------------------------------
(* services/api.ts fetchAPI *)

\* the response statuses tried; response.ok is 200..299
Statuses == {200, 201, 204, 299, 300, 304, 400, 401, 404, 500, 503}
ok(status) == status >= 200 /\ status <= 299

\* a thrown value: an Error carries its message
Thrown(isError, message) == [isError |-> isError, message |-> message]

\* the body of a response: a JSON object with its error and message
\* properties (absent, empty or set), JSON null, text that is not JSON, or
\* nothing
ObjectBody(error, message) == [kind |-> "object", error |-> error, message |-> message]
Bodies ==
    {ObjectBody(e, m) : e \in {UndefinedString, "", "VALIDATION_ERROR"},
                        m \in {UndefinedString, "", "Invalid credentials"}}
        \cup {[kind |-> "null"], [kind |-> "unparsable"], [kind |-> "empty"]}

\* what the request does: fetch rejects with a thrown value, or resolves with
\* a response of some status and body
Requests ==
    {[transport |-> "error", thrown |-> t] :
        t \in {Thrown(TRUE, "Failed to fetch"), Thrown(FALSE, "aborted")}}
        \cup {[transport |-> "ok", status |-> st, body |-> b] : st \in Statuses, b \in Bodies}

\* ApiResponse: the success and the failure variant
ApiSuccess(data, message) ==
    [success |-> TRUE, data |-> data, message |-> message, error |-> UndefinedString,
     statusCode |-> AbsentNumber]
ApiFailure(error, message, statusCode) ==
    [success |-> FALSE, data |-> Undefined, message |-> message, error |-> error,
     statusCode |-> statusCode]

\* a || b on strings
OrElse(a, b) == IF Falsy(a) THEN b ELSE a

\* the try block of fetchAPI: the value it returns, or the value it throws
Returned(value) == [returned |-> TRUE, value |-> value]
Raised(thrown) == [returned |-> FALSE, value |-> thrown]
fetchAPITry(request) ==
    IF request.transport = "error" THEN Raised(request.thrown)
    ELSE CASE request.body.kind = "unparsable" ->
                  Raised(Thrown(TRUE, "Unexpected token < in JSON at position 0"))
           [] request.body.kind = "empty" ->
                  Raised(Thrown(TRUE, "Unexpected end of JSON input"))
           [] request.body.kind = "null" ->
                  Raised(Thrown(TRUE, "Cannot read properties of null"))
           [] request.body.kind = "object" ->
                  IF ~ok(request.status)
                  THEN Returned(ApiFailure(OrElse(request.body.error, "Request failed"),
                                           OrElse(request.body.message,
                                                  "HTTP " \o ToString(request.status)),
                                           request.status))
                  ELSE Returned(ApiSuccess(request.body, request.body.message))

\* fetchAPI: the try block, and the catch block for what it throws
fetchAPI(request) ==
    LET attempt == fetchAPITry(request)
    IN IF attempt.returned THEN attempt
       ELSE Returned(ApiFailure("NETWORK_ERROR",
                                IF attempt.value.isError THEN attempt.value.message
                                ELSE "Network request failed",
                                AbsentNumber))

GatewayCalls == {[fn |-> "fetchAPI", arg |-> r, done |-> FALSE, result |-> Returned(Null)] : r \in Requests}

FetchAPI ==
    /\ hook = "gateway"
    /\ call.fn = "fetchAPI" /\ ~call.done
    /\ call' = [call EXCEPT !.done = TRUE, !.result = fetchAPI(call.arg)]
    /\ UNCHANGED <<hook, reportVars, marksVars, authVars, rosterVars, last>>

-----------------------------------------------------------------------------
(* Validator calls: the argument is drawn at the start, the call evaluates it *)

\* a validator call that has not been evaluated yet
PendingValidation(fn, arg) == [fn |-> fn, arg |-> arg, done |-> FALSE, result |-> createResult(<< >>)]

\* values handed to validateMark for a component of maximum max: around 0 and
\* around the maximum, with 0 to 3 decimals, and the values that are no number
MarkValues(max) ==
    {0 - Unit, 0 - 125, 0, 10, 125, 250, 500, max * Unit - 10, max * Unit, max * Unit + 10,
     max * Unit + 125, (max + 1) * Unit, NaN, AbsentNumber, OneE7}
MarkCalls ==
    UNION {{PendingValidation("validateMark",
                              [value |-> v, fieldName |-> c, maxValue |-> MAX_MARKS[c]]) :
                v \in MarkValues(MAX_MARKS[c])} : c \in {"assignment", "quiz", "project", "midsem", "finalExam"}}

\* complete inputs with one, several or no failing component
SeveralFailing ==
    {[studentId |-> "S1", assignment |-> 11 * Unit, quiz |-> NaN, project |-> 20 * Unit,
      midsem |-> 18 * Unit, finalExam |-> 25 * Unit],
     [studentId |-> "", assignment |-> 8 * Unit, quiz |-> 12 * Unit, project |-> 0 - 125,
      midsem |-> 18 * Unit, finalExam |-> 30 * Unit + 125],
     [studentId |-> "S1", assignment |-> 0 - Unit, quiz |-> 16 * Unit, project |-> 26 * Unit,
      midsem |-> 21 * Unit, finalExam |-> 31 * Unit],
     [studentId |-> "", assignment |-> 10 * Unit, quiz |-> 15 * Unit, project |-> 25 * Unit,
      midsem |-> 20 * Unit, finalExam |-> 30 * Unit]}
\* inputs whose components stand at 0, just below the maximum, at the maximum
\* or one mark above it
BoundaryValues(c) == {0, MAX_MARKS[c] * Unit - 10, MAX_MARKS[c] * Unit, (MAX_MARKS[c] + 1) * Unit}
BoundaryMarks ==
    {[studentId |-> "S1", assignment |-> a, quiz |-> q, project |-> p, midsem |-> m, finalExam |-> f] :
        a \in BoundaryValues("assignment"), q \in BoundaryValues("quiz"),
        p \in BoundaryValues("project"), m \in BoundaryValues("midsem"),
        f \in BoundaryValues("finalExam")}
MarksCalls ==
    {PendingValidation("validateMarks", m) : m \in MarksInputs \cup SeveralFailing \cup BoundaryMarks}

BulkCalls == {PendingValidation("validateBulkMarks", b) : b \in Batches(MaxBulk)}

ValidationCalls == MarkCalls \cup MarksCalls \cup BulkCalls

ValidateMark ==
    /\ hook = "validation"
    /\ call.fn = "validateMark" /\ ~call.done
    /\ call' = [call EXCEPT !.done = TRUE,
                            !.result = validateMark(call.arg.value, call.arg.fieldName,
                                                    call.arg.maxValue)]
    /\ UNCHANGED <<rosterVars, hook, reportVars, marksVars, authVars, last>>

ValidateMarks ==
    /\ hook = "validation"
    /\ call.fn = "validateMarks" /\ ~call.done
    /\ call' = [call EXCEPT !.done = TRUE, !.result = validateMarks(call.arg)]
    /\ UNCHANGED <<rosterVars, hook, reportVars, marksVars, authVars, last>>

ValidateBulkMarks ==
    /\ hook = "validation"
    /\ call.fn = "validateBulkMarks" /\ ~call.done
    /\ call' = [call EXCEPT !.done = TRUE, !.result = validateBulkMarks(call.arg)]
    /\ UNCHANGED <<rosterVars, hook, reportVars, marksVars, authVars, last>>

-----------------------------------------------------------------------------
(* Specifications *)

NoStep == Step("none", "none", "none", "none")

NoCall == Pending("none", 0)

\* useStudents(courseId?): with a courseId the mount effect has called
\* fetchStudents(courseId), which is in flight
InitRoster ==
    /\ rosterError = NULL
    /\ halfSettled = [c \in RosterCalls |-> [students |-> 0, marks |-> 0]]
    /\ \/ /\ rosterIsLoading = FALSE
          /\ rosterPending = [c \in RosterCalls |-> 0]
          /\ lastRequestedCourseId = UndefinedString
       \/ /\ hook = "useStudents"
          /\ rosterIsLoading = TRUE
          /\ rosterPending = [c \in RosterCalls |->
                                 IF c = RosterCall("fetchStudents", "C1", FALSE) THEN 1 ELSE 0]
          /\ lastRequestedCourseId = "C1"

\* the useState initial values of the hooks; useAuth's mount effect has run up
\* to its await: with a stored token the profile call is in flight and
\* isLoading stays true, without one isLoading is already false
InitState ==
    /\ statistics = Null
    /\ isLoadingStatistics = FALSE
    /\ reportError = NULL
    /\ reportPending = 0
    /\ currentMarks = Null
    /\ isSubmitting = FALSE
    /\ isUpdating = FALSE
    /\ isFetching = FALSE
    /\ success = FALSE
    /\ marksError = NULL
    /\ marksPending = [op \in MarksOps |-> 0]
    /\ lecturer = Null
    /\ token \in (IF hook = "useAuth" THEN StoredTokens ELSE {NULL})
    /\ authIsLoading = (token # NULL)
    /\ isAuthenticating = FALSE
    /\ isRegistering = FALSE
    /\ authError = NULL
    /\ authPending = [op \in AuthOps |-> IF op = "loadProfile" /\ token # NULL THEN 1 ELSE 0]
    /\ InitRoster
    /\ students = << >>
    /\ studentsWithMarks = << >>
    /\ isRefreshing = FALSE
    /\ lastFetchedCourseId = UndefinedString
    /\ lastShape = "none"
    /\ last = NoStep

InitGrading == hook = "utils" /\ call \in GradingCalls /\ reportInput = << >> /\ InitState

NextGrading ==
    \/ CalculateGrade
    \/ PreviewCalculation
    \/ CompareGrades

SpecGrading == InitGrading /\ [][NextGrading]_vars

InitValidation == hook = "validation" /\ call \in ValidationCalls /\ reportInput = << >> /\ InitState

NextValidation ==
    \/ ValidateMark
    \/ ValidateMarks
    \/ ValidateBulkMarks

SpecValidation == InitValidation /\ [][NextValidation]_vars

InitGateway == hook = "gateway" /\ call \in GatewayCalls /\ reportInput = << >> /\ InitState

NextGateway == FetchAPI

SpecGateway == InitGateway /\ [][NextGateway]_vars

InitExport == hook = "export" /\ call \in ExportCalls /\ reportInput = << >> /\ InitState

NextExport == ExportMarksToCSV

SpecExport == InitExport /\ [][NextExport]_vars

InitReporting ==
    hook = "useReporting" /\ call = NoCall /\ reportInput \in StudentLists(MaxStudents) /\ InitState

NextReporting ==
    \/ CalculateStatistics
    \/ FetchStatistics
    \/ \E outcome \in GatewayOutcomes : FetchStatisticsResolve(outcome)

SpecReporting == InitReporting /\ [][NextReporting]_vars

\* the arguments a caller hands over: the inputs above, or null
SubmitArguments == MarksInputs \cup {Null}
UpdateArguments == UpdatePayloads \cup {Null}
BulkArguments == BulkInputs \cup {Null}

InitMarks == hook = "useMarks" /\ call = NoCall /\ reportInput = << >> /\ InitState

NextMarks ==
    \/ \E marks \in SubmitArguments : SubmitMarks(marks)
    \/ \E outcome \in GatewayOutcomes, data \in ServerRecords : SubmitMarksResolve(outcome, data)
    \/ \E marks \in UpdateArguments : UpdateStudentMarks("M1", marks)
    \/ \E outcome \in GatewayOutcomes, data \in ServerRecords :
           UpdateStudentMarksResolve(outcome, data)
    \/ \E bulkMarks \in BulkArguments : SubmitBulkMarks(bulkMarks)
    \/ \E outcome \in GatewayOutcomes : SubmitBulkMarksResolve(outcome)
    \/ \E studentId \in {"S1"} : FetchMarks(studentId)
    \/ \E outcome \in GatewayOutcomes, data \in ServerRecords : FetchMarksResolve(outcome, data)
    \/ \E marks \in MarksInputs : ValidateMarksInput(marks)
    \/ ClearStatus

SpecMarks == InitMarks /\ [][NextMarks]_vars

InitStudents == hook = "useStudents" /\ call = NoCall /\ reportInput = << >> /\ InitState

NextStudents ==
    \/ \E courseId \in RosterCourses : FetchStudents(courseId)
    \/ \E courseId \in RosterCourses, refresh \in BOOLEAN, outcome \in GatewayOutcomes :
           \E data \in DataOf(outcome, RosterData(courseId)) :
               FetchStudentsResolve(courseId, refresh, outcome, data)
    \/ \E courseId \in RosterCourses : FetchStudentsWithMarks(courseId)
    \/ \E courseId \in RosterCourses, refresh \in BOOLEAN, which \in {"students", "marks"} :
           FirstResponse(courseId, refresh, which)
    \/ \E courseId \in RosterCourses, refresh \in BOOLEAN, first \in {"students", "marks", "none"},
          studentsOutcome \in GatewayOutcomes, marksOutcome \in GatewayOutcomes :
           \E studentsData \in DataOf(studentsOutcome, RosterData(courseId)),
              marksData \in DataOf(marksOutcome, CourseMarksData) :
               FetchStudentsWithMarksResolve(courseId, refresh, first, studentsOutcome,
                                             marksOutcome, studentsData, marksData)
    \/ \E studentId \in {"S1"} : FetchStudent(studentId)
    \/ \E outcome \in GatewayOutcomes : FetchStudentResolve(outcome)
    \/ Refresh
    \/ ClearStudentsError

SpecStudents == InitStudents /\ [][NextStudents]_vars

LoginArguments == LoginInputs \cup {Null}
RegistrationArguments == RegistrationInputs \cup {Null}

InitAuth == hook = "useAuth" /\ call = NoCall /\ reportInput = << >> /\ InitState

NextAuth ==
    \/ \E credentials \in LoginArguments : Login(credentials)
    \/ \E outcome \in GatewayOutcomes, data \in LoginResponses, message \in FailureMessages :
           LoginResolve(outcome, data, message)
    \/ Logout
    \/ \E outcome \in GatewayOutcomes : LogoutResolve(outcome)
    \/ \E data \in RegistrationArguments : Register(data)
    \/ \E outcome \in GatewayOutcomes : RegisterResolve(outcome)
    \/ RefreshProfile
    \/ \E outcome \in GatewayOutcomes, data \in Lecturers : RefreshProfileResolve(outcome, data)
    \/ \E outcome \in GatewayOutcomes, data \in Lecturers : LoadProfileResolve(outcome, data)
    \/ ClearError

SpecAuth == InitAuth /\ [][NextAuth]_vars

\* the hooks together: each hook instance keeps its own state and no handler
\* of one reads or writes the state of another, so one instance is observed
\* at a time
Init == InitAuth \/ InitMarks \/ InitReporting \/ InitStudents

Next == NextAuth \/ NextMarks \/ NextReporting \/ NextStudents

Spec == Init /\ [][Next]_vars

-----------------------------------------------------------------------------
(* Grading claims, checked under SpecGrading *)

graded == call.fn = "calculateGrade" /\ call.done
previewed == call.fn = "previewCalculation" /\ call.done

\* the boundaries whose [minScore, maxScore] contains the score
MatchingBoundaries(score) == {i \in 1..Len(GRADE_BOUNDARIES) : boundaryMatches(score, i)}

\* the exact sum of the five components of a preview argument
ComponentSum(marks) ==
    marks.assignment + marks.quiz + marks.project + marks.midsem + marks.finalExam

\* C1: every total in [0,100], integer or decimal at 0.01 resolution, is
\* matched by exactly one entry of GRADE_BOUNDARIES.
C1_BoundaryTotality ==
    (graded /\ Ge(call.arg, 0) /\ Le(call.arg, MAX_TOTAL_MARKS * Unit))
        => Cardinality(MatchingBoundaries(call.arg)) = 1

\* the grade scale as the README tabulates it, for a whole number of marks
DocumentedGrade(t) ==
    CASE t >= 90 -> "A"  [] t >= 87 /\ t <= 89 -> "A-" [] t >= 84 /\ t <= 86 -> "B+"
      [] t >= 80 /\ t <= 83 -> "B"  [] t >= 77 /\ t <= 79 -> "B-" [] t >= 74 /\ t <= 76 -> "C+"
      [] t >= 70 /\ t <= 73 -> "C"  [] t >= 67 /\ t <= 69 -> "C-" [] t >= 64 /\ t <= 66 -> "D+"
      [] t >= 62 /\ t <= 63 -> "D"  [] t >= 60 /\ t <= 61 -> "D-" [] t <= 59 -> "F"

IsWhole(v) == ~IsNaN(v) /\ v % Unit = 0

\* C2: for every integer total in 0..100 calculateGrade returns the label of
\* the documented scale, and the total of integer components is their exact sum.
C2_DocumentedScale ==
    /\ (graded /\ IsWhole(call.arg) /\ call.arg >= 0 /\ call.arg <= MAX_TOTAL_MARKS * Unit)
          => call.grade = DocumentedGrade(call.arg \div Unit)
    /\ (previewed /\ \A i \in 1..Len(Components) : IsWhole(call.arg[Components[i]]))
          => /\ call.totalScore = ComponentSum(call.arg)
             /\ (call.totalScore >= 0 /\ call.totalScore <= MAX_TOTAL_MARKS * Unit)
                   => call.grade = DocumentedGrade(call.totalScore \div Unit)

\* the README example: 8 + 12 + 20 + 18 + 25 previews as 83, grade B
C2_Witness ==
    /\ previewed
    /\ call.arg = [c \in DOMAIN ExampleMarks |-> ExampleMarks[c] * Unit]
    /\ call.totalScore = 83 * Unit /\ call.grade = "B"

\* C3: passing by grade and passing by score agree on every total:
\* isPassingGrade(calculateGrade(t)) = isPassingScore(t clamped into [0,100]).
C3_PassingAgrees ==
    graded => (isPassingGrade(call.grade) <=> isPassingScore(clampScore(call.arg)))

\* C4: a clamped value that no boundary matches is never turned into grade F.
C4_NoSilentF ==
    (graded /\ ~IsNaN(call.arg) /\ MatchingBoundaries(clampScore(call.arg)) = {}) => call.grade # "F"

\* C5: every total above 100 yields A and every total below 0 yields F; the
\* result is always one of the twelve labels.
C5_Clamping ==
    graded => /\ call.grade \in Grades
              /\ (~IsNaN(call.arg) /\ call.arg > MAX_TOTAL_MARKS * Unit) => call.grade = "A"
              /\ (~IsNaN(call.arg) /\ call.arg < 0) => call.grade = "F"

C5_Witness == graded /\ call.arg = 150 * Unit /\ call.grade = "A"

\* round to hundredths, a tie going to the hundredth of larger magnitude
RoundHalfAwayFromZero(x) ==
    IF x >= 0 THEN ((x + 5) \div 10) * 10 ELSE 0 - (((0 - x) + 5) \div 10) * 10

compared == call.fn = "compareGrades" /\ call.done

\* C29: calculateGrade is monotone: for all totals t1 <= t2 the grade of t1 is
\* never better than the grade of t2, that is
\* compareGrades(calculateGrade(t1), calculateGrade(t2)) <= 0.
C29_GradeMonotone ==
    (compared /\ call.arg.low <= call.arg.high) => call.result <= 0

-----------------------------------------------------------------------------
(* Statistics claims, checked under SpecReporting *)

aggregated == last.op = "calculateStatistics"

\* positions of the students of the input list that have marks
Graded == {i \in 1..Len(reportInput) : reportInput[i].marks # Undefined}
GradedAs(g) == {i \in Graded : reportInput[i].marks.grade = g}

RECURSIVE SumOver(_, _)
SumOver(f, S) ==
    IF S = {} THEN 0 ELSE LET x == CHOOSE y \in S : TRUE IN f[x] + SumOver(f, S \ {x})

\* C7: for a non-empty collection of graded records the distribution has all
\* 12 grade keys, each count is the number of records with that grade, the
\* counts sum to the number of records with marks, and passRate is
\* 100 * (records not graded F) / (records with marks) to the nearest hundredth.
C7_Aggregate ==
    (aggregated /\ Graded # {}) =>
        LET n == Cardinality(Graded)
            p == Cardinality(Graded \ GradedAs("F"))
            d == statistics.gradeDistribution
        IN /\ DOMAIN d = Grades /\ Cardinality(DOMAIN d) = 12
           /\ \A g \in Grades : d[g] = Cardinality(GradedAs(g))
           /\ SumOver(d, Grades) = n /\ statistics.studentsWithMarks = n
           /\ statistics.passRate % 10 = 0
           /\ statistics.passRate * n - 100 * Unit * p <= 5 * n
           /\ 100 * Unit * p - statistics.passRate * n <= 5 * n

\* the fixture: grades [A, A, B+, F] give A:2, B+:1, F:1 and passRate 75.00
C7_Witness ==
    /\ aggregated /\ Len(reportInput) = 4 /\ Graded = 1..4
    /\ [i \in 1..4 |-> reportInput[i].marks.grade] = <<"A", "A", "B+", "F">>
    /\ statistics.gradeDistribution =
           [ZeroDistribution EXCEPT !["A"] = 2, !["B+"] = 1, !["F"] = 1]
    /\ statistics.passRate = 75 * Unit

\* C8: when no student has marks, average, highest, lowest and passRate are
\* all 0 and every grade of the distribution counts 0.
C8_EmptyAggregate ==
    (aggregated /\ Graded = {}) =>
        /\ statistics.averageScore = 0 /\ statistics.highestScore = 0
        /\ statistics.lowestScore = 0 /\ statistics.passRate = 0
        /\ statistics.gradeDistribution = ZeroDistribution
        /\ statistics.studentsWithMarks = 0

\* a non-empty list none of whose students has marks, aggregated
C8_Witness ==
    /\ aggregated /\ Len(reportInput) = 2 /\ Graded = {}
    /\ statistics.totalStudents = 2 /\ statistics.averageScore = 0

-----------------------------------------------------------------------------
(* Validation-before-gateway claims, checked under Spec *)

\* the step just taken is the call of op, with its argument on record
IsCall(step, op) == step.op = op /\ step.verdict \in {"valid", "invalid", "skipped"}

Messages(validation) == {validation.errors[k].message : k \in 1..Len(validation.errors)}

NoGatewayCall ==
    /\ authPending' = authPending /\ marksPending' = marksPending
    /\ reportPending' = reportPending /\ rosterPending' = rosterPending

HeldUnchanged == lecturer' = lecturer /\ token' = token /\ currentMarks' = currentMarks

\* C9: when login, register, submitMarks or submitBulkMarks is called with an
\* input its validator rejects, no gateway call is issued, the operation
\* returns false, error is one of the validator's messages, the busy flag is
\* cleared, and identity, token and currentMarks keep their values.
C9_ValidationFirst ==
    [][ /\ IsCall(last', "login") =>
               LET validation == LoginValidation[last'.arg]
               IN ~validation.isValid =>
                      /\ NoGatewayCall /\ HeldUnchanged /\ last'.ret = "false"
                      /\ authError' \in Messages(validation)
                      /\ isAuthenticating' = FALSE
        /\ IsCall(last', "register") =>
               LET validation == RegistrationValidation[last'.arg]
               IN ~validation.isValid =>
                      /\ NoGatewayCall /\ HeldUnchanged /\ last'.ret = "false"
                      /\ authError' \in Messages(validation)
                      /\ isRegistering' = FALSE
        /\ IsCall(last', "submitMarks") =>
               LET validation == MarksValidation[last'.arg]
               IN ~validation.isValid =>
                      /\ NoGatewayCall /\ HeldUnchanged /\ last'.ret = "false"
                      /\ marksError' \in Messages(validation)
                      /\ isSubmitting' = FALSE
        /\ IsCall(last', "submitBulkMarks") =>
               LET validation == BulkValidation[last'.arg]
               IN ~validation.isValid =>
                      /\ NoGatewayCall /\ HeldUnchanged /\ last'.ret = "false"
                      /\ marksError' \in Messages(validation)
                      /\ isSubmitting' = FALSE
      ]_vars

\* submitMarks with assignment = 11 (maximum 10): rejected with the component's
\* message, nothing in flight
C9_Witness ==
    /\ IsCall(last, "submitMarks")
    /\ last.arg = [ValidMarks("S1") EXCEPT !.assignment = 11 * Unit]
    /\ last.ret = "false"
    /\ marksError = "assignment cannot exceed 10"
    /\ InFlight(marksPending, MarksOps) = 0
    /\ ~isSubmitting

\* a payload of updateStudentMarks supplies a component outside [0, max], NaN
\* or with more than 2 decimals
HasInvalidSupplied(marks) ==
    \E c \in ComponentNames :
        /\ marks[c] # AbsentNumber
        /\ \/ IsNaN(marks[c])
           \/ marks[c] < 0
           \/ marks[c] > MAX_MARKS[c] * Unit
           \/ marks[c] % 10 # 0

\* C10: updateStudentMarks never issues updateMarks for a payload, complete or
\* partial, that supplies an invalid component; it returns false with error set.
C10_UpdateValidated ==
    [][ (IsCall(last', "updateStudentMarks") /\ HasInvalidSupplied(last'.arg))
            => /\ marksPending' = marksPending
               /\ last'.ret = "false"
               /\ marksError' # NULL
      ]_vars

\* C22: derived fields are never stale: the graded record the marks hook holds
\* (currentMarks, after any sequence of submitMarks, updateStudentMarks and
\* fetchMarks) has totalScore equal to the rounded sum of its five components
\* and grade equal to calculateGrade(totalScore), as a result of processMarks has.
C22_DerivedNeverStale ==
    currentMarks # Null =>
        /\ currentMarks.totalScore = calculateTotalScore(currentMarks)
        /\ currentMarks.grade = calculateGrade(currentMarks.totalScore)

\* C27: in every reachable state of the marks hook, after any sequence of
\* submitMarks, updateStudentMarks, submitBulkMarks, fetchMarks,
\* validateMarksInput and clearStatus, the success flag and a non-null error
\* are never both set.
C27_SuccessExcludesError == ~(success /\ marksError # NULL)

-----------------------------------------------------------------------------
(* Validation claims, checked under SpecValidation *)

validatedMark == call.fn = "validateMark" /\ call.done
validatedMarks == call.fn = "validateMarks" /\ call.done
validatedBulk == call.fn = "validateBulkMarks" /\ call.done

\* the fields of the errors of a result, in order
Fields(result) == [k \in 1..Len(result.errors) |-> result.errors[k].field]

\* the errors of a result reported under one field, in order
ErrorsOf(result, field) == SelectSeq(result.errors, LAMBDA e : e.field = field)

ComponentValid(marks, c) == validateMark(marks[c], c, MAX_MARKS[c]).isValid

\* position of a field in the order studentId, the five components, total
FieldRank(field) ==
    CASE field = "studentId" -> 0
      [] field = "assignment" -> 1
      [] field = "quiz" -> 2
      [] field = "project" -> 3
      [] field = "midsem" -> 4
      [] field = "finalExam" -> 5
      [] field = "total" -> 6

\* every failing component's errors are reported, in the order of the components
ReportsEveryComponent(marks, result) ==
    /\ \A c \in ComponentNames :
           ErrorsOf(result, c) = validateMark(marks[c], c, MAX_MARKS[c]).errors
    /\ \A k \in 1..(Len(result.errors) - 1) :
           FieldRank(result.errors[k].field) <= FieldRank(result.errors[k + 1].field)

\* C11 (as stated): validateMarks reports the errors of every failing
\* component in the order assignment, quiz, project, midsem, finalExam, and
\* the test of the total is performed exactly when all five components are
\* individually valid, no 'total' error being added when a component fails.
C11_TotalIffComponents ==
    validatedMarks =>
        /\ ReportsEveryComponent(call.arg, call.result)
        /\ totalChecked(call.arg) <=> \A c \in ComponentNames : ComponentValid(call.arg, c)
        /\ (\E c \in ComponentNames : ~ComponentValid(call.arg, c))
               => ErrorsOf(call.result, "total") = << >>

\* C11 (amended): validateMarks reports the errors of every failing component
\* in order; the test of the total is performed exactly when nothing has been
\* reported before it, that is when the student id is present and all five
\* components are valid; a 'total' error appears only when the test is
\* performed and the sum exceeds 100, never beside a component error.
C11_TotalIffNoError ==
    validatedMarks =>
        /\ ReportsEveryComponent(call.arg, call.result)
        /\ totalChecked(call.arg) <=>
               /\ ~Falsy(call.arg.studentId)
               /\ \A c \in ComponentNames : ComponentValid(call.arg, c)
        /\ ErrorsOf(call.result, "total") # << >> =>
               /\ totalChecked(call.arg)
               /\ ComponentSum(call.arg) > MAX_TOTAL_MARKS * Unit
        /\ (\E c \in ComponentNames : ~ComponentValid(call.arg, c))
               => ErrorsOf(call.result, "total") = << >>

\* assignment = 11 and quiz = NaN: both components are reported, in order
C11_Witness ==
    /\ validatedMarks
    /\ call.arg.assignment = 11 * Unit /\ IsNaN(call.arg.quiz)
    /\ Fields(call.result) = <<"assignment", "quiz">>
    /\ ~totalChecked(call.arg)

\* C30: validateMarks never reports an error with field 'total': when the
\* student id is present and all five components pass validateMark, their sum
\* is within [0, 100], the maxima adding up to MAX_TOTAL_MARKS; a valid result
\* implies every component in [0, its maximum] and the sum in [0, 100].
C30_NoTotalError ==
    validatedMarks =>
        /\ ErrorsOf(call.result, "total") = << >>
        /\ (~Falsy(call.arg.studentId) /\ \A c \in ComponentNames : ComponentValid(call.arg, c))
               => /\ totalChecked(call.arg)
                  /\ ComponentSum(call.arg) >= 0
                  /\ ComponentSum(call.arg) <= MAX_TOTAL_MARKS * Unit
        /\ call.result.isValid
               => /\ \A c \in ComponentNames :
                         call.arg[c] >= 0 /\ call.arg[c] <= MAX_MARKS[c] * Unit
                  /\ ComponentSum(call.arg) >= 0
                  /\ ComponentSum(call.arg) <= MAX_TOTAL_MARKS * Unit

\* every component at its maximum: the total is tested, 100 does not exceed 100
C30_Witness ==
    /\ validatedMarks
    /\ \A c \in ComponentNames : call.arg[c] = MAX_MARKS[c] * Unit
    /\ ~Falsy(call.arg.studentId)
    /\ totalChecked(call.arg)
    /\ ComponentSum(call.arg) = MAX_TOTAL_MARKS * Unit
    /\ call.result = createResult(<< >>)

\* the number of digits after the decimal point of a number
FractionalDigits(v) ==
    IF v = OneE7 THEN 7
    ELSE IF v % 10 # 0 THEN 3 ELSE IF v % 100 # 0 THEN 2 ELSE IF v % Unit # 0 THEN 1 ELSE 0

IsNumber(v) == v # AbsentNumber /\ ~IsNaN(v)

\* the rules of validateMark that a number violates
ViolatedRules(v, max) ==
    {rule \in {"negative", "maximum", "decimals"} :
        \/ rule = "negative" /\ Less(v, 0)
        \/ rule = "maximum" /\ Less(max * Unit, v)
        \/ rule = "decimals" /\ FractionalDigits(v) > 2}

\* C12: validateMark is valid exactly when the value is a number, not NaN,
\* within [0, max] and of at most 2 fractional digits; NaN yields exactly one
\* error; otherwise each violated rule adds its own error.
C12_ValidateMark ==
    validatedMark =>
        LET v == call.arg.value
            max == call.arg.maxValue
        IN /\ call.result.isValid <=> (IsNumber(v) /\ ViolatedRules(v, max) = {})
           /\ IsNaN(v) => Len(call.result.errors) = 1
           /\ IsNumber(v) => Len(call.result.errors) = Cardinality(ViolatedRules(v, max))

\* two entries of a batch share their student identifier
HasDuplicate(batch) ==
    \E i, j \in 1..Len(batch) : i < j /\ batch[i].studentId = batch[j].studentId

\* the errors validateMarks reports for entry index, under the prefixed fields
Prefixed(batch, index) ==
    LET result == validateMarks(batch[index])
    IN [k \in 1..Len(result.errors) |->
           "marks[" \o ToString(index - 1) \o "]." \o result.errors[k].field]

\* C13: for a non-empty batch validateBulkMarks adds exactly one error with
\* field 'marks' when some identifier occurs more than once and none when all
\* are distinct; the errors of entry i are reported under the fields
\* marks[i].<field>, entry by entry.
C13_OneDuplicateError ==
    (validatedBulk /\ Len(call.arg) > 0) =>
        /\ Len(ErrorsOf(call.result, "marks")) = IF HasDuplicate(call.arg) THEN 1 ELSE 0
        /\ SelectSeq(Fields(call.result), LAMBDA f : f # "marks")
               = Flatten([index \in 1..Len(call.arg) |-> Prefixed(call.arg, index)])

\* S1, S2, S1, S2: two identifiers are duplicated, one aggregate error
C13_Witness ==
    /\ validatedBulk
    /\ call.arg = <<ValidMarks("S1"), ValidMarks("S2"), ValidMarks("S1"), ValidMarks("S2")>>
    /\ call.result.errors = <<createError("marks", "Duplicate student IDs found: S1, S2")>>

-----------------------------------------------------------------------------
(* Session claims, checked under SpecAuth *)

IsResolve(step, op) == step.op = op /\ step.verdict \in GatewayOutcomes

\* C14: when login's gateway call returns a failure, lecturer and the stored
\* token keep the values they had, login returns false and error is the
\* gateway's message; a login step changes lecturer or the token only on a
\* success, which installs the response's lecturer and token.
C14_LoginFailureKeepsSession ==
    [][ /\ (IsResolve(last', "login") /\ last'.verdict = "failure")
            => /\ lecturer' = lecturer /\ token' = token
               /\ last'.ret = "false"
               /\ authError' = last'.arg
        /\ (last'.op = "login" /\ (lecturer' # lecturer \/ token' # token))
            => last'.verdict = "success"
        /\ (IsResolve(last', "login") /\ last'.verdict = "success")
            => /\ lecturer' = last'.arg.lecturer /\ token' = last'.arg.token
               /\ last'.ret = "true"
      ]_vars

\* a login failed while lecturer L1 was held under token T0: both are kept and
\* error is the gateway's message
C14_Witness ==
    /\ IsResolve(last, "login") /\ last.verdict = "failure"
    /\ last.arg = "Invalid credentials" /\ authError = "Invalid credentials"
    /\ lecturer = [id |-> "L1"] /\ token = "T0"

\* C28: identity and token stay in step under interleaving: once every call in
\* flight (the mount-time profile load, login, logout, refreshProfile) has
\* resolved, a held lecturer implies a stored token.
C28_IdentityImpliesToken ==
    (InFlight(authPending, AuthOps) = 0 /\ lecturer # Null) => token # NULL

\* C15: when a logout completes, with a success, a failure response or a
\* fault, lecturer is null and no token is stored.
C15_LogoutClears ==
    [][ IsResolve(last', "logout") => (lecturer' = Null /\ token' = NULL) ]_vars

\* a logout whose remote call returned a failure has completed
C15_Witness ==
    /\ IsResolve(last, "logout") /\ last.verdict = "failure"
    /\ lecturer = Null /\ token = NULL /\ authPending["logout"] = 0

-----------------------------------------------------------------------------
(* Claims about the hooks together, checked under Spec and SpecStudents *)

Failed(step) == step.verdict \in {"failure", "throw"}

\* a step that starts an operation: it runs the handler up to its await (or
\* to its early return)
IsStart(step, op) == step.op = op /\ step.verdict \notin GatewayOutcomes

\* C16: when fetchStudents, fetchStudentsWithMarks or refresh ends in a
\* failure, students and studentsWithMarks are unchanged; when fetchMarks,
\* submitMarks or updateStudentMarks ends in a failure, currentMarks is
\* unchanged; when fetchStatistics ends in a failure, statistics is unchanged.
C16_FailureKeepsData ==
    [][ /\ (last'.op \in {"fetchStudents", "fetchStudentsWithMarks", "refresh"} /\ Failed(last'))
            => (students' = students /\ studentsWithMarks' = studentsWithMarks)
        /\ (last'.op \in {"fetchMarks", "submitMarks", "updateStudentMarks"} /\ Failed(last'))
            => currentMarks' = currentMarks
        /\ (last'.op = "fetchStatistics" /\ Failed(last'))
            => statistics' = statistics
      ]_vars

\* C17: the step that starts login, logout, register, refreshProfile,
\* fetchStudents, fetchStudentsWithMarks, fetchStudent, submitMarks,
\* updateStudentMarks, submitBulkMarks, fetchMarks or fetchStatistics resets
\* the hook's error to null, and in useMarks success to false; only a failed
\* validation, which comes after the reset, may set the error again.
C17_ResetAtStart ==
    [][ /\ (\E op \in {"login", "logout", "register", "refreshProfile"} : IsStart(last', op))
            => (last'.verdict # "invalid" => authError' = NULL)
        /\ (\E op \in {"fetchStudents", "fetchStudentsWithMarks", "fetchStudent"} :
                IsStart(last', op))
            => rosterError' = NULL
        /\ (\E op \in MarksOps : IsStart(last', op))
            => /\ success' = FALSE
               /\ last'.verdict # "invalid" => marksError' = NULL
        /\ IsStart(last', "fetchStatistics")
            => reportError' = NULL
      ]_vars

\* C18: refresh does nothing when no fetch has succeeded; otherwise it issues,
\* for the course fetched last, fetchStudents when the fetch that succeeded
\* last was fetchStudents and fetchStudentsWithMarks when it was
\* fetchStudentsWithMarks.
C18_RefreshRepeatsShape ==
    [][ IsStart(last', "refresh") =>
            IF lastShape = "none"
            THEN last'.verdict = "skipped" /\ rosterPending' = rosterPending
            ELSE /\ last'.ret = "pending"
                 /\ last'.arg = RosterCall(IF lastShape = "students" THEN "fetchStudents"
                                            ELSE "fetchStudentsWithMarks",
                                            lastFetchedCourseId, TRUE)
                 /\ rosterPending' = [rosterPending EXCEPT ![last'.arg] = @ + 1]
      ]_vars

-----------------------------------------------------------------------------
(* Roster claims, checked under SpecStudents *)

\* the step just taken resumed a fetchStudentsWithMarks, one a caller or
\* refresh issued, after its Promise.all settled
ResumedWithMarks(step) ==
    /\ step.op \in {"fetchStudentsWithMarks", "refresh"}
    /\ step.verdict \in GatewayOutcomes
    /\ step.arg.marks # "none"

\* the records of a marks response that belong to a student
RecordsOf(marksData, id) == {marksData[k] : k \in {j \in 1..Len(marksData) : marksData[j].studentId = id}}

\* C24: after a successful fetchStudentsWithMarks, studentsWithMarks has one
\* entry per fetched student, in the fetched order; an entry carries marks
\* exactly when the fetched marks have a record of that student, the attached
\* record being one of them; records of unknown students are ignored, and
\* when the marks call fails every student appears without marks.
C24_JoinKeepsEveryStudent ==
    [][ (ResumedWithMarks(last') /\ last'.verdict = "success") =>
            LET studentsData == last'.arg.studentsData
                marksData == last'.arg.marksData
            IN /\ Len(studentsWithMarks') = Len(studentsData)
               /\ \A i \in 1..Len(studentsData) :
                      /\ studentsWithMarks'[i].id = studentsData[i].id
                      /\ IF last'.arg.marks = "success" /\ RecordsOf(marksData, studentsData[i].id) # {}
                         THEN studentsWithMarks'[i].marks \in RecordsOf(marksData, studentsData[i].id)
                         ELSE studentsWithMarks'[i].marks = Undefined
      ]_vars

\* students S1 and S2 joined with the marks of S9 and two records of S1: S1
\* carries its later record, S2 is kept without marks, S9 is ignored
C24_Witness ==
    /\ last.op = "fetchStudentsWithMarks" /\ last.verdict = "success"
    /\ last.arg.marks = "success"
    /\ last.arg.studentsData = <<StudentRecord("S1"), StudentRecord("S2")>>
    /\ Len(last.arg.marksData) = 3
    /\ studentsWithMarks = <<[id |-> "S1", marks |-> processMarks(FullMarks("S1"), "M2")],
                             [id |-> "S2", marks |-> Undefined]>>

\* what a failure of the students call leaves behind
StudentsFailureOutcome ==
    /\ rosterError' = ServerMessage
    /\ studentsWithMarks' = << >>
    /\ students' = students
    /\ lastFetchedCourseId' = lastFetchedCourseId
    /\ rosterIsLoading' = FALSE

C26_StaleFetchApplied ==
    [][ (last'.op = "fetchStudents" /\ last'.verdict = "success") =>
            /\ students' = last'.arg.studentsData
            /\ \E courseId \in RosterCourses :
                   /\ rosterPending' =
                          [rosterPending EXCEPT ![RosterCall("fetchStudents", courseId, FALSE)] = @ - 1]
                   /\ lastFetchedCourseId' = courseId
      ]_vars

\* fetchStudents for C1, then for C2; the response of C1 resolved last: the
\* hook holds the students of C1 and C1 as the last fetched course, C2 being
\* the course requested last
C26_Witness ==
    /\ last.op = "fetchStudents" /\ last.verdict = "success"
    /\ students = <<StudentRecord("S1"), StudentRecord("S2")>>
    /\ lastFetchedCourseId = "C1"
    /\ lastRequestedCourseId = "C2"
    /\ InFlight(rosterPending, RosterCalls) = 0

\* C19: whenever a gateway call of an operation returns a failure, the hook's
\* error becomes the failure's message; an operation that reaches the gateway
\* adds exactly one call to the calls in flight, and no resumption adds any.
C19_FailureSurfaced ==
    [][ /\ (last'.op = "login" /\ last'.verdict = "failure") => authError' = last'.arg
        /\ (last'.op \in {"logout", "register", "refreshProfile"} /\ last'.verdict = "failure")
            => authError' = ServerMessage
        /\ (last'.op \in MarksOps /\ last'.verdict = "failure") => marksError' = ServerMessage
        /\ (last'.op = "fetchStatistics" /\ last'.verdict = "failure")
            => reportError' = ServerMessage
        /\ (/\ last'.op \in {"fetchStudents", "fetchStudentsWithMarks", "fetchStudent", "refresh"}
            /\ last'.verdict \in {"success", "failure"}
            /\ "failure" \in {last'.arg.students, last'.arg.marks})
            => rosterError' = ServerMessage
        /\ last'.ret = "pending" =>
               /\ InFlight(authPending', AuthOps) + InFlight(marksPending', MarksOps)
                      + InFlight(rosterPending', RosterCalls) + reportPending'
                  = InFlight(authPending, AuthOps) + InFlight(marksPending, MarksOps)
                      + InFlight(rosterPending, RosterCalls) + reportPending + 1
        /\ last'.verdict \in GatewayOutcomes =>
               /\ InFlight(authPending', AuthOps) + InFlight(marksPending', MarksOps)
                      + InFlight(rosterPending', RosterCalls) + reportPending' + 1
                  = InFlight(authPending, AuthOps) + InFlight(marksPending, MarksOps)
                      + InFlight(rosterPending, RosterCalls) + reportPending
      ]_vars

\* the message a handler's catch block sets
GenericMessage(op) ==
    CASE op = "login" -> "An unexpected error occurred during login"
      [] op = "register" -> "An unexpected error occurred during registration"
      [] op = "submitMarks" -> "An unexpected error occurred while submitting marks"
      [] op = "updateStudentMarks" -> "An unexpected error occurred while updating marks"
      [] op = "submitBulkMarks" -> "An unexpected error occurred while submitting bulk marks"
      [] op = "fetchMarks" -> "Failed to fetch marks"
      [] op = "fetchStudents" -> "Failed to fetch students"
      [] op = "fetchStudentsWithMarks" -> "Failed to fetch students with marks"
      [] op = "fetchStatistics" -> "Failed to fetch statistics"

\* the operations whose body is wrapped in try/catch
GuardedOps ==
    {"login", "register", "submitMarks", "updateStudentMarks", "submitBulkMarks", "fetchMarks",
     "fetchStudents", "fetchStudentsWithMarks", "fetchStatistics"}

\* a step in which a gateway call ("throw") or a validator ("fault") threw
Faulted(step) == step.verdict \in {"throw", "fault"}

\* C23: when a gateway call or a validator throws during login, register,
\* submitMarks, updateStudentMarks, submitBulkMarks, fetchMarks, fetchStudents,
\* fetchStudentsWithMarks or fetchStatistics, the operation still completes
\* with false, null or void, the hook's error is the fixed generic message of
\* the operation, no exception leaves the handler, and the operation's busy
\* flag is false.
C23_FaultsCaught ==
    [][ /\ (Faulted(last') /\ last'.op \in GuardedOps)
            => last'.ret \in {"false", "null", "void"}
        /\ (Faulted(last') /\ last'.op \in {"login", "register"})
            => /\ authError' = GenericMessage(last'.op)
               /\ last'.ret = "false"
               /\ last'.op = "login" => isAuthenticating' = FALSE
               /\ last'.op = "register" => isRegistering' = FALSE
        /\ (Faulted(last') /\ last'.op \in {"submitMarks", "updateStudentMarks", "submitBulkMarks"})
            => /\ marksError' = GenericMessage(last'.op)
               /\ last'.ret = "false"
               /\ last'.op \in {"submitMarks", "submitBulkMarks"} => isSubmitting' = FALSE
               /\ last'.op = "updateStudentMarks" => isUpdating' = FALSE
        /\ (Faulted(last') /\ last'.op = "fetchMarks")
            => /\ marksError' = GenericMessage(last'.op)
               /\ last'.ret = "null"
               /\ isFetching' = FALSE
        /\ (Faulted(last') /\ last'.op \in {"fetchStudents", "fetchStudentsWithMarks"})
            => /\ rosterError' = GenericMessage(last'.op)
               /\ last'.ret = "void"
               /\ rosterIsLoading' = FALSE
        /\ (Faulted(last') /\ last'.op = "fetchStatistics")
            => /\ reportError' = GenericMessage(last'.op)
               /\ last'.ret = "null"
               /\ isLoadingStatistics' = FALSE
      ]_vars

\* createMarks threw during submitMarks: the handler returned false with the
\* generic error and isSubmitting false
C23_Witness ==
    /\ last.op = "submitMarks" /\ last.verdict = "throw" /\ last.ret = "false"
    /\ marksError = "An unexpected error occurred while submitting marks"
    /\ ~isSubmitting
    /\ marksPending["submitMarks"] = 0

-----------------------------------------------------------------------------
(* Gateway claim, checked under SpecGateway *)

fetched == call.fn = "fetchAPI" /\ call.done

\* a property of the body, undefined unless the body is a JSON object
BodyField(request, field) ==
    IF request.body.kind = "object" THEN request.body[field] ELSE UndefinedString

\* C20: fetchAPI never raises; it returns success only for a 2xx status with
\* a parsable body; a non-2xx status always yields a failure with the body's
\* error and message, or 'Request failed' and 'HTTP <status>', and the status
\* code; a transport or parse failure yields the NETWORK_ERROR failure.
C20_GatewayNeverRaises ==
    fetched =>
        LET request == call.arg
            response == call.result.value
        IN /\ call.result.returned
           /\ response.success =>
                  /\ request.transport = "ok" /\ ok(request.status)
                  /\ request.body.kind \in {"object", "null"}
           /\ (request.transport = "ok" /\ ~ok(request.status)) =>
                  /\ ~response.success
                  /\ response.error = OrElse(BodyField(request, "error"), "Request failed")
                  /\ response.message = OrElse(BodyField(request, "message"),
                                               "HTTP " \o ToString(request.status))
                  /\ response.statusCode = request.status
           /\ (request.transport = "error" \/ request.body.kind \in {"unparsable", "empty"}) =>
                  /\ ~response.success
                  /\ response.error = "NETWORK_ERROR"

-----------------------------------------------------------------------------
(* Export claim, checked under SpecExport *)

exported == call.fn = "exportMarksToCSV" /\ call.done

\* RFC 4180: a reader that has the fields and records read so far, the field
\* being read, and its place in it: at the start of a field, in a field
\* without quotes, in a quoted field, or after a quote met in a quoted field
\* (the first of a doubled quote, or the closing one).  A comma ends a field
\* and a line break (CRLF, LF or CR) ends a record, unless in a quoted field.
ReaderStart == [mode |-> "start", field |-> << >>, row |-> << >>, rows |-> << >>, afterCR |-> FALSE]

Read(st, ch) ==
    LET endField == [st EXCEPT !.row = Append(st.row, st.field), !.field = << >>,
                               !.mode = "start", !.afterCR = FALSE]
        endRecord(cr) == [st EXCEPT !.rows = Append(st.rows, Append(st.row, st.field)),
                                    !.row = << >>, !.field = << >>, !.mode = "start", !.afterCR = cr]
    IN IF st.mode = "quoted"
       THEN IF ch = Quote THEN [st EXCEPT !.mode = "closing"]
            ELSE [st EXCEPT !.field = Append(@, ch)]
       ELSE IF st.mode = "closing" /\ ch = Quote
       THEN [st EXCEPT !.field = Append(@, Quote), !.mode = "quoted"]
       ELSE IF ch = Comma THEN endField
       ELSE IF ch = LineFeed
       THEN IF st.afterCR THEN [st EXCEPT !.afterCR = FALSE] ELSE endRecord(FALSE)
       ELSE IF ch = CarriageReturn THEN endRecord(TRUE)
       ELSE IF ch = Quote /\ st.mode = "start" THEN [st EXCEPT !.mode = "quoted", !.afterCR = FALSE]
       ELSE [st EXCEPT !.field = Append(@, ch), !.mode = "unquoted", !.afterCR = FALSE]

\* the reader after the tokens from..to of a text, read in order: the first
\* half is read before the second is begun
ReaderModes == {"start", "unquoted", "quoted", "closing"}
RECURSIVE ReadRange(_, _, _, _)
ReadRange(text, from, to, st) ==
    IF from > to THEN st
    ELSE IF from = to THEN Read(st, text[from])
    ELSE LET middle == (from + to) \div 2
             half == ReadRange(text, from, middle, st)
         IN IF half.mode \in ReaderModes THEN ReadRange(text, middle + 1, to, half) ELSE half

\* the records of a text; a line break at the end of the text starts no record
ParseCSV(text) ==
    LET st == ReadRange(text, 1, Len(text), ReaderStart)
    IN IF st.mode = "start" /\ st.row = << >> THEN st.rows
       ELSE Append(st.rows, Append(st.row, st.field))

\* C21: CSV round trip: for every list of students, the empty one included,
\* whose text fields may hold commas, double quotes, line feeds and carriage
\* returns, reading the data of exportMarksToCSV by the quoting rules of
\* RFC 4180 gives the header row and one row of 12 fields per student, each
\* field equal to the original value (a number as its decimal text, missing
\* marks as 'N/A').
C21_CsvRoundTrip ==
    exported =>
        ParseCSV(call.data) = <<exportHeaders>> \o [i \in 1..Len(call.arg) |-> exportRow(call.arg[i])]

====
